---- MODULE Spec2Model ----
(***************************************************************************)
(* Bit-C compiler: lexer, parser, optimizer and x86-64 code generator.     *)
(* The pipeline stages are modelled as operators translated from the C++   *)
(* sources; the generated assembly is run on a small x86-64 machine model  *)
(* (registers, flags, a runtime stack addressed through rsp/rbp).          *)
(***************************************************************************)
EXTENDS Integers, Sequences, FiniteSets, TLC

VARIABLES phase,    \* position in the pipeline of the run under study
          source,   \* the source text handed to the Lexer
          tokens,   \* std::vector<Token> handed to the Parser
          parsed,   \* outcome of Parser::parse
          program,  \* the Program (AST) handed to Optimizer / Codegen
          cg,       \* the Codegen object
          m,        \* the machine that runs the generated assembly
          proc      \* what the compiler process left: stderr, file, status

vars == <<phase, source, tokens, parsed, program, cg, m, proc>>

(***************************************************************************)
(* 32-bit two's-complement arithmetic (int / eax-sized registers).         *)
(***************************************************************************)
INT_MAX == 2147483647
INT_MIN == -INT_MAX - 1

Neg32(a) == IF a = INT_MIN THEN INT_MIN ELSE -a

\* a + b reduced modulo 2^32 into [INT_MIN, INT_MAX]
Add32(a, b) ==
    IF a >= 0 /\ b >= 0 /\ a > INT_MAX - b
        THEN ((a - INT_MAX) - 1) + ((b - INT_MAX) - 1)
    ELSE IF a < 0 /\ b < 0 /\ a < INT_MIN - b
        THEN ((a + INT_MAX) + 1) + ((b + INT_MAX) + 1)
    ELSE a + b

Sub32(a, b) ==
    IF b = INT_MIN
        THEN (IF a >= 0 THEN ((a - INT_MAX) - 1) ELSE (a + INT_MAX) + 1)
        ELSE Add32(a, -b)

Lo16(v) == v % 65536
Hi16(v) == ((v - Lo16(v)) \div 65536) % 65536
From16(hi, lo) == (IF hi >= 32768 THEN hi - 65536 ELSE hi) * 65536 + lo

\* x * y modulo 2^16, for x, y in 0..65535
MulLo16(x, y) == ((((x \div 256) * y) % 256) * 256 + (x % 256) * y) % 65536

\* a * b reduced modulo 2^32 into [INT_MIN, INT_MAX], by 16-bit halves
Mul32(a, b) ==
    LET y == (Lo16(a) % 256) * Lo16(b)
        z == (Lo16(a) \div 256) * Lo16(b) + (y \div 256)
        lo == (z % 256) * 256 + (y % 256)
        hi == ((z \div 256) + MulLo16(Hi16(a), Lo16(b)) + MulLo16(Lo16(a), Hi16(b)))
                % 65536
    IN  From16(hi, lo)

\* exact a + b, a - b, a * b fit in 32 bits
AddFits(a, b) ==
    /\ ~(a >= 0 /\ b >= 0 /\ a > INT_MAX - b)
    /\ ~(a < 0 /\ b < 0 /\ a < INT_MIN - b)

SubFits(a, b) ==
    IF b = INT_MIN THEN a < 0 ELSE AddFits(a, -b)

\* quotient of a / b truncated toward zero (C++ '/', x86 idiv), b # 0,
\* not (a = INT_MIN and b = -1)
TruncDiv(a, b) ==
    IF b = INT_MIN THEN (IF a = INT_MIN THEN 1 ELSE 0)
    ELSE IF a = INT_MIN
        THEN (IF b > 0 THEN -((-(a + b)) \div b) - 1
                       ELSE ((-(a - b)) \div (-b)) + 1)
    ELSE IF (a >= 0) = (b > 0)
        THEN (IF a >= 0 THEN a ELSE -a) \div (IF b > 0 THEN b ELSE -b)
        ELSE -((IF a >= 0 THEN a ELSE -a) \div (IF b > 0 THEN b ELSE -b))

MulFits(a, b) ==
    \/ a = 0
    \/ /\ ~(a = -1 /\ b = INT_MIN)
       /\ ~(b = -1 /\ a = INT_MIN)
       /\ TruncDiv(Mul32(a, b), a) = b

TruncRem(a, b) ==
    IF b = INT_MIN THEN (IF a = INT_MIN THEN 0 ELSE a)
    ELSE Sub32(a, Mul32(TruncDiv(a, b), b))

\* bitwise operations on non-negative operands of the given number of bits
RECURSIVE BitOr(_, _, _)
BitOr(a, b, bits) ==
    IF bits = 0 THEN 0
    ELSE (IF a % 2 = 1 \/ b % 2 = 1 THEN 1 ELSE 0)
         + 2 * BitOr(a \div 2, b \div 2, bits - 1)

RECURSIVE BitAnd(_, _, _)
BitAnd(a, b, bits) ==
    IF bits = 0 THEN 0
    ELSE (IF a % 2 = 1 /\ b % 2 = 1 THEN 1 ELSE 0)
         + 2 * BitAnd(a \div 2, b \div 2, bits - 1)

Or32(a, b) ==
    From16(BitOr(Hi16(a), Hi16(b), 16), BitOr(Lo16(a), Lo16(b), 16))

Low8(v) == v % 256
SetLow8(v, byte) == (v - (v % 256)) + byte

(***************************************************************************)
(* Abstract syntax tree (ast.hpp; FuncCall and Function::params as used by *)
(* codegen.cpp and optimizer.cpp).                                         *)
(***************************************************************************)
IntLiteral(v)       == [kind |-> "IntLiteral", value |-> v]
Identifier(n)       == [kind |-> "Identifier", name |-> n]
UnaryOp(o, e)       == [kind |-> "UnaryOp", op |-> o, operand |-> e]
BinaryOp(o, l, r)   == [kind |-> "BinaryOp", op |-> o, left |-> l, right |-> r]
FuncCall(n, as)     == [kind |-> "FuncCall", name |-> n, args |-> as]

Block(ss)           == [kind |-> "Block", statements |-> ss]
VarDecl(n, i)       == [kind |-> "VarDecl", name |-> n, init |-> i]
Assignment(n, e)    == [kind |-> "Assignment", name |-> n, value |-> e]
ReturnStmt(e)       == [kind |-> "ReturnStmt", value |-> e]
IfStmt(c, b)        == [kind |-> "IfStmt", condition |-> c, then_block |-> b]
WhileStmt(c, b)     == [kind |-> "WhileStmt", condition |-> c, body |-> b]
ExprStmt(e)         == [kind |-> "ExprStmt", expression |-> e]

Param(n)            == [name |-> n]
Function(n, ps, b)  == [name |-> n, params |-> ps, body |-> b]
Program(fs)         == [functions |-> fs]

UnaryOps  == {"NEGATE", "NOT"}
BinaryOps == {"ADD", "SUB", "MUL", "DIV", "EQ", "NE", "LT", "GT", "AND", "OR"}

(***************************************************************************)
(* Lexer (lexer.cpp).  The source is a string, a token is                  *)
(* [type, start |-> [line, col], lexeme].                                  *)
(***************************************************************************)
Token(t, l, c, lx) == [type |-> t, start |-> [line |-> l, col |-> c], lexeme |-> lx]

Digits == {"0", "1", "2", "3", "4", "5", "6", "7", "8", "9"}
Alphas == {"a", "b", "c", "d", "e", "f", "g", "h", "i", "j", "k", "l", "m",
           "n", "o", "p", "q", "r", "s", "t", "u", "v", "w", "x", "y", "z",
           "A", "B", "C", "D", "E", "F", "G", "H", "I", "J", "K", "L", "M",
           "N", "O", "P", "Q", "R", "S", "T", "U", "V", "W", "X", "Y", "Z"}
Spaces == {" ", "\t", "\n", "\r", "\f"}

isspace(c) == c \in Spaces
isdigit(c) == c \in Digits
isalpha(c) == c \in Alphas
isalnum(c) == c \in Alphas \cup Digits

At(input, i) == SubSeq(input, i, i)

RECURSIVE DigitRunEnd(_, _)
\* while (i < input.size () && std::isdigit (input[i])) i++;
DigitRunEnd(input, i) ==
    IF i <= Len(input) /\ isdigit(At(input, i)) THEN DigitRunEnd(input, i + 1)
    ELSE i

RECURSIVE WordRunEnd(_, _)
\* while (i < input.size () && (std::isalnum (input[i]) || input[i] == '_')) i++;
WordRunEnd(input, i) ==
    IF i <= Len(input) /\ (isalnum(At(input, i)) \/ At(input, i) = "_")
        THEN WordRunEnd(input, i + 1)
    ELSE i

KeywordType(lexeme) ==
    IF lexeme = "int" THEN "INT_TYPE"
    ELSE IF lexeme = "return" THEN "RETURN"
    ELSE IF lexeme = "if" THEN "IF"
    ELSE IF lexeme = "while" THEN "WHILE"
    ELSE "IDENTIFIER"

TwoCharType(c, next) ==
    IF c = "|" /\ next = "|" THEN "OR_CMP"
    ELSE IF c = "!" /\ next = "=" THEN "NE_CMP"
    ELSE IF c = "&" /\ next = "&" THEN "AND_CMP"
    ELSE IF c = "=" /\ next = "=" THEN "EQ_CMP"
    ELSE "UNKNOWN"

\* the switch over single-character operators and punctuation
SingleCharType(c) ==
    CASE c = "+" -> "ADD_OP"
      [] c = "-" -> "SUB_OP"
      [] c = "*" -> "MULT_OP"
      [] c = "/" -> "DIV_OP"
      [] c = "=" -> "EQ_OP"
      [] c = "<" -> "LT_CMP"
      [] c = ">" -> "GT_CMP"
      [] c = "!" -> "NOT_OP"
      [] c = ";" -> "SEMICOLON"
      [] c = "(" -> "L_PAREN"
      [] c = ")" -> "R_PAREN"
      [] c = "{" -> "L_BRACE"
      [] c = "}" -> "R_BRACE"
      [] OTHER -> "UNKNOWN"

RECURSIVE skip_space(_, _, _, _)
\* if (std::isspace (c)) { newline: line++, col = 1; else col++; i++; continue; }
skip_space(input, i, line, col) ==
    IF i <= Len(input) /\ isspace(At(input, i))
        THEN IF At(input, i) = "\n" THEN skip_space(input, i + 1, line + 1, 1)
             ELSE skip_space(input, i + 1, line, col + 1)
    ELSE [i |-> i, line |-> line, col |-> col]

\* one token starting at the non-space character i: [tok, len]
scan_token(input, i, line, col) ==
    LET c == At(input, i)
    IN  IF isdigit(c)
            THEN LET e == DigitRunEnd(input, i)
                 IN  [tok |-> Token("INT_LITERAL", line, col, SubSeq(input, i, e - 1)),
                      len |-> e - i]
        ELSE IF isalpha(c) \/ c = "_"
            THEN LET e == WordRunEnd(input, i)
                     lexeme == SubSeq(input, i, e - 1)
                 IN  [tok |-> Token(KeywordType(lexeme), line, col, lexeme),
                      len |-> e - i]
        ELSE IF i + 1 <= Len(input) /\ TwoCharType(c, At(input, i + 1)) # "UNKNOWN"
            THEN [tok |-> Token(TwoCharType(c, At(input, i + 1)), line, col,
                                SubSeq(input, i, i + 1)),
                  len |-> 2]
        ELSE [tok |-> Token(SingleCharType(c), line, col, c), len |-> 1]

RECURSIVE lex_loop(_, _, _, _, _)
\* the loop pushing END_OF_FILE twice
lex_loop_twice(input, i, line, col, toks) ==
    LET p == skip_space(input, i, line, col)
        t == scan_token(input, p.i, p.line, p.col)
    IN  IF p.i > Len(input)
            THEN toks \o <<Token("END_OF_FILE", p.line, p.col, ""),
                           Token("END_OF_FILE", p.line, p.col, "")>>
        ELSE lex_loop(input, p.i + t.len, p.line, p.col + t.len, Append(toks, t.tok))

\* the while loop of Lexer::string_to_tokens; i is 1-based
lex_loop(input, i, line, col, toks) ==
    LET p == skip_space(input, i, line, col)
        t == scan_token(input, p.i, p.line, p.col)
    IN  IF p.i > Len(input)
            THEN Append(toks, Token("END_OF_FILE", p.line, p.col, ""))
        ELSE lex_loop(input, p.i + t.len, p.line, p.col + t.len, Append(toks, t.tok))

string_to_tokens(input) == lex_loop(input, 1, 1, 1, <<>>)

(***************************************************************************)
(* Parser (parser.cpp).  current_ is the 0-based cursor; every parsing     *)
(* function yields [cur, node, thrown, msg, loc]: the cursor after it, the *)
(* node it built and, when an exception left it, the exception's type,     *)
(* message and (for ParseError) location.                                  *)
(***************************************************************************)
MAX_ID_LEN == 32

NoLoc == [line |-> 0, col |-> 0]
Ok(cur, node) ==
    [cur |-> cur, node |-> node, thrown |-> "", msg |-> "", loc |-> NoLoc]
ParseError(cur, msg, loc) ==
    [cur |-> cur, node |-> <<>>, thrown |-> "ParseError", msg |-> msg, loc |-> loc]
OtherError(cur, what) ==
    [cur |-> cur, node |-> <<>>, thrown |-> what, msg |-> "stoi", loc |-> NoLoc]

peek(toks, cur) == toks[cur + 1]
prev(toks, cur) == toks[cur]
is_at_end(toks, cur) == peek(toks, cur).type = "END_OF_FILE"
check(toks, cur, type) == ~is_at_end(toks, cur) /\ peek(toks, cur).type = type
\* the cursor after next ()
\* next without the test for the end of the tokens
next_past(toks, cur) == cur + 1

next(toks, cur) == IF is_at_end(toks, cur) THEN cur ELSE cur + 1

\* expect: the cursor moves over a token of the given type (node is that
\* token), any other token raises ParseError at its location
expect(toks, cur, type, msg) ==
    IF check(toks, cur, type) THEN Ok(next(toks, cur), prev(toks, next(toks, cur)))
    ELSE ParseError(cur, msg, peek(toks, cur).start)

DigitValue(c) ==
    CASE c = "0" -> 0 [] c = "1" -> 1 [] c = "2" -> 2 [] c = "3" -> 3
      [] c = "4" -> 4 [] c = "5" -> 5 [] c = "6" -> 6 [] c = "7" -> 7
      [] c = "8" -> 8 [] c = "9" -> 9

RECURSIVE stoi_acc(_, _, _)
stoi_acc(str, i, acc) ==
    IF i > Len(str) THEN [ok |-> TRUE, v |-> acc]
    ELSE LET d == DigitValue(At(str, i))
         IN  IF acc > (INT_MAX - d) \div 10 THEN [ok |-> FALSE, v |-> 0]
             ELSE stoi_acc(str, i + 1, acc * 10 + d)

\* std::stoi on a string of decimal digits: the value, or std::out_of_range
stoi(str) == stoi_acc(str, 1, 0)

\* the length test off by one
too_long_inclusive(name) == Len(name) >= MAX_ID_LEN

\* name.length () > MAX_ID_LEN
too_long(name) == Len(name) > MAX_ID_LEN

RECURSIVE expression(_, _)
RECURSIVE logic_or_loop(_, _, _)
RECURSIVE logic_and(_, _)
RECURSIVE logic_and_loop(_, _, _)
RECURSIVE comparison(_, _)
RECURSIVE comparison_loop(_, _, _)
RECURSIVE addition(_, _)
RECURSIVE addition_loop(_, _, _)
RECURSIVE multiplication(_, _)
RECURSIVE multiplication_loop(_, _, _)
RECURSIVE unary(_, _)
RECURSIVE primary(_, _)

primary(toks, cur) ==
    LET closed(e, x) == IF x.thrown # "" THEN x ELSE Ok(x.cur, e.node)
        inner(e) ==
            IF e.thrown # "" THEN e
            ELSE closed(e, expect(toks, e.cur, "R_PAREN",
                                  "expected ')' after expression"))
        literal(value) ==
            IF value.ok THEN Ok(cur + 1, IntLiteral(value.v))
            ELSE OtherError(cur + 1, "std::out_of_range")
    IN  IF check(toks, cur, "INT_LITERAL") THEN literal(stoi(peek(toks, cur).lexeme))
        ELSE IF check(toks, cur, "IDENTIFIER")
            THEN Ok(cur + 1, Identifier(peek(toks, cur).lexeme))
        ELSE IF check(toks, cur, "L_PAREN") THEN inner(expression(toks, cur + 1))
        ELSE ParseError(cur, "expected expression", peek(toks, cur).start)

unary(toks, cur) ==
    LET applied(op, o) ==
            IF o.thrown # "" THEN o ELSE Ok(o.cur, UnaryOp(op, o.node))
    IN  IF check(toks, cur, "SUB_OP") THEN applied("NEGATE", unary(toks, cur + 1))
        ELSE IF check(toks, cur, "NOT_OP") THEN applied("NOT", unary(toks, cur + 1))
        ELSE primary(toks, cur)

multiplication_loop(toks, cur, left) ==
    LET op == IF check(toks, cur, "MULT_OP") THEN "MUL" ELSE "DIV"
        joined(r) ==
            IF r.thrown # "" THEN r
            ELSE multiplication_loop(toks, r.cur, BinaryOp(op, left, r.node))
    IN  IF check(toks, cur, "MULT_OP") \/ check(toks, cur, "DIV_OP")
            THEN joined(unary(toks, cur + 1))
        ELSE Ok(cur, left)

multiplication(toks, cur) ==
    LET loop(l) ==
            IF l.thrown # "" THEN l ELSE multiplication_loop(toks, l.cur, l.node)
    IN  loop(unary(toks, cur))

\* the loop of addition () grouping to the right
addition_loop_right(toks, cur, left) ==
    LET op == IF check(toks, cur, "ADD_OP") THEN "ADD" ELSE "SUB"
        joined(r) ==
            IF r.thrown # "" THEN r ELSE Ok(r.cur, BinaryOp(op, left, r.node))
    IN  IF check(toks, cur, "ADD_OP") \/ check(toks, cur, "SUB_OP")
            THEN joined(addition(toks, cur + 1))
        ELSE Ok(cur, left)

addition_loop(toks, cur, left) ==
    LET op == IF check(toks, cur, "ADD_OP") THEN "ADD" ELSE "SUB"
        joined(r) ==
            IF r.thrown # "" THEN r
            ELSE addition_loop(toks, r.cur, BinaryOp(op, left, r.node))
    IN  IF check(toks, cur, "ADD_OP") \/ check(toks, cur, "SUB_OP")
            THEN joined(multiplication(toks, cur + 1))
        ELSE Ok(cur, left)

addition(toks, cur) ==
    LET loop(l) == IF l.thrown # "" THEN l ELSE addition_loop(toks, l.cur, l.node)
    IN  loop(multiplication(toks, cur))

comparison_loop(toks, cur, left) ==
    LET op == IF check(toks, cur, "EQ_CMP") THEN "EQ"
              ELSE IF check(toks, cur, "NE_CMP") THEN "NE"
              ELSE IF check(toks, cur, "LT_CMP") THEN "LT"
              ELSE "GT"
        joined(r) ==
            IF r.thrown # "" THEN r
            ELSE comparison_loop(toks, r.cur, BinaryOp(op, left, r.node))
    IN  IF \E t \in {"EQ_CMP", "NE_CMP", "LT_CMP", "GT_CMP"} : check(toks, cur, t)
            THEN joined(addition(toks, cur + 1))
        ELSE Ok(cur, left)

comparison(toks, cur) ==
    LET loop(l) == IF l.thrown # "" THEN l ELSE comparison_loop(toks, l.cur, l.node)
    IN  loop(addition(toks, cur))

logic_and_loop(toks, cur, left) ==
    LET joined(r) ==
            IF r.thrown # "" THEN r
            ELSE logic_and_loop(toks, r.cur, BinaryOp("AND", left, r.node))
    IN  IF check(toks, cur, "AND_CMP") THEN joined(comparison(toks, cur + 1))
        ELSE Ok(cur, left)

logic_and(toks, cur) ==
    LET loop(l) == IF l.thrown # "" THEN l ELSE logic_and_loop(toks, l.cur, l.node)
    IN  loop(comparison(toks, cur))

logic_or_loop(toks, cur, left) ==
    LET joined(r) ==
            IF r.thrown # "" THEN r
            ELSE logic_or_loop(toks, r.cur, BinaryOp("OR", left, r.node))
    IN  IF check(toks, cur, "OR_CMP") THEN joined(logic_and(toks, cur + 1))
        ELSE Ok(cur, left)

logic_or(toks, cur) ==
    LET loop(l) == IF l.thrown # "" THEN l ELSE logic_or_loop(toks, l.cur, l.node)
    IN  loop(logic_and(toks, cur))

expression(toks, cur) == logic_or(toks, cur)

RECURSIVE statement(_, _)
RECURSIVE block_loop(_, _, _)

\* while (!check (R_BRACE) && !is_at_end ()) stmts.push_back (statement ());
block_loop(toks, cur, stmts) ==
    LET pushed(st) ==
            IF st.thrown # "" THEN st
            ELSE block_loop(toks, st.cur, Append(stmts, st.node))
    IN  IF ~check(toks, cur, "R_BRACE") /\ ~is_at_end(toks, cur)
            THEN pushed(statement(toks, cur))
        ELSE Ok(cur, stmts)

block(toks, cur) ==
    LET lb == expect(toks, cur, "L_BRACE", "expected '{'")
        closed(ss, rb) == IF rb.thrown # "" THEN rb ELSE Ok(rb.cur, Block(ss.node))
        filled(ss) ==
            IF ss.thrown # "" THEN ss
            ELSE closed(ss, expect(toks, ss.cur, "R_BRACE", "expected '}'"))
    IN  IF lb.thrown # "" THEN lb ELSE filled(block_loop(toks, lb.cur, <<>>))

declaration(toks, cur) ==
    LET kw == expect(toks, cur, "INT_TYPE", "expected 'int'")
        name_tok == expect(toks, kw.cur, "IDENTIFIER", "expected variable name")
        name == name_tok.node.lexeme
        ended(init, semi) ==
            IF semi.thrown # "" THEN semi ELSE Ok(semi.cur, VarDecl(name, init))
        initialised(init) ==
            IF init.thrown # "" THEN init
            ELSE ended(<<init.node>>, expect(toks, init.cur, "SEMICOLON",
                                             "expected ';' after declaration"))
    IN  IF kw.thrown # "" THEN kw
        ELSE IF name_tok.thrown # "" THEN name_tok
        ELSE IF too_long(name)
            THEN ParseError(name_tok.cur, "identifier exceeds maximum length",
                            name_tok.node.start)
        ELSE IF check(toks, name_tok.cur, "EQ_OP")
            THEN initialised(expression(toks, name_tok.cur + 1))
        ELSE ended(<<>>, expect(toks, name_tok.cur, "SEMICOLON",
                                "expected ';' after declaration"))

\* assignment_or_expr_stmt taking == for the = of an assignment
assignment_or_expr_stmt_eq(toks, cur) ==
    LET assigned(value, semi) ==
            IF semi.thrown # "" THEN semi
            ELSE Ok(semi.cur, Assignment(peek(toks, cur).lexeme, value.node))
        valued(value) ==
            IF value.thrown # "" THEN value
            ELSE assigned(value, expect(toks, value.cur, "SEMICOLON",
                                        "expected ';' after assignment"))
        stated(expr, semi) ==
            IF semi.thrown # "" THEN semi ELSE Ok(semi.cur, ExprStmt(expr.node))
        evaluated(expr) ==
            IF expr.thrown # "" THEN expr
            ELSE stated(expr, expect(toks, expr.cur, "SEMICOLON",
                                     "expected ';' after expression"))
    IN  IF /\ check(toks, cur, "IDENTIFIER")
           /\ cur + 1 < Len(toks)
           /\ toks[cur + 2].type \in {"EQ_OP", "EQ_CMP"}
            THEN valued(expression(toks, next(toks, cur + 1)))
        ELSE evaluated(expression(toks, cur))

assignment_or_expr_stmt(toks, cur) ==
    LET assigned(value, semi) ==
            IF semi.thrown # "" THEN semi
            ELSE Ok(semi.cur, Assignment(peek(toks, cur).lexeme, value.node))
        valued(value) ==
            IF value.thrown # "" THEN value
            ELSE assigned(value, expect(toks, value.cur, "SEMICOLON",
                                        "expected ';' after assignment"))
        stated(expr, semi) ==
            IF semi.thrown # "" THEN semi ELSE Ok(semi.cur, ExprStmt(expr.node))
        evaluated(expr) ==
            IF expr.thrown # "" THEN expr
            ELSE stated(expr, expect(toks, expr.cur, "SEMICOLON",
                                     "expected ';' after expression"))
    IN  IF /\ check(toks, cur, "IDENTIFIER")
           /\ cur + 1 < Len(toks)
           /\ toks[cur + 2].type = "EQ_OP"
            THEN valued(expression(toks, next(toks, cur + 1)))
        ELSE evaluated(expression(toks, cur))

return_statement(toks, cur) ==
    LET kw == expect(toks, cur, "RETURN", "expected 'return'")
        ended(value, semi) ==
            IF semi.thrown # "" THEN semi ELSE Ok(semi.cur, ReturnStmt(value.node))
        valued(value) ==
            IF value.thrown # "" THEN value
            ELSE ended(value, expect(toks, value.cur, "SEMICOLON",
                                     "expected ';' after return value"))
    IN  IF kw.thrown # "" THEN kw ELSE valued(expression(toks, kw.cur))

\* the shared shape of if_statement and while_statement
cond_block(toks, cur, kwtype, kwmsg, lpmsg, rpmsg) ==
    LET kw == expect(toks, cur, kwtype, kwmsg)
        lp == expect(toks, kw.cur, "L_PAREN", lpmsg)
        bodied(condition, body) ==
            IF body.thrown # "" THEN body
            ELSE Ok(body.cur, <<condition.node, body.node>>)
        closed(condition, rp) ==
            IF rp.thrown # "" THEN rp ELSE bodied(condition, block(toks, rp.cur))
        tested(condition) ==
            IF condition.thrown # "" THEN condition
            ELSE closed(condition, expect(toks, condition.cur, "R_PAREN", rpmsg))
    IN  IF kw.thrown # "" THEN kw
        ELSE IF lp.thrown # "" THEN lp
        ELSE tested(expression(toks, lp.cur))

if_statement(toks, cur) ==
    LET made(r) == IF r.thrown # "" THEN r ELSE Ok(r.cur, IfStmt(r.node[1], r.node[2]))
    IN  made(cond_block(toks, cur, "IF", "expected 'if'", "expected '(' after 'if'",
                        "expected ')' after if condition"))

while_statement(toks, cur) ==
    LET made(r) ==
            IF r.thrown # "" THEN r ELSE Ok(r.cur, WhileStmt(r.node[1], r.node[2]))
    IN  made(cond_block(toks, cur, "WHILE", "expected 'while'",
                        "expected '(' after 'while'",
                        "expected ')' after while condition"))

statement(toks, cur) ==
    IF check(toks, cur, "INT_TYPE") THEN declaration(toks, cur)
    ELSE IF check(toks, cur, "RETURN") THEN return_statement(toks, cur)
    ELSE IF check(toks, cur, "IF") THEN if_statement(toks, cur)
    ELSE IF check(toks, cur, "WHILE") THEN while_statement(toks, cur)
    ELSE IF check(toks, cur, "L_BRACE") THEN block(toks, cur)
    ELSE assignment_or_expr_stmt(toks, cur)

function(toks, cur) ==
    LET kw == expect(toks, cur, "INT_TYPE", "expected 'int' return type")
        name_tok == expect(toks, kw.cur, "IDENTIFIER", "expected function name")
        name == name_tok.node.lexeme
        lp == expect(toks, name_tok.cur, "L_PAREN", "expected '(' after function name")
        rp == expect(toks, lp.cur, "R_PAREN", "expected ')' after parameters")
        bodied(body) ==
            IF body.thrown # "" THEN body
            ELSE Ok(body.cur, Function(name, <<>>, body.node))
    IN  IF kw.thrown # "" THEN kw
        ELSE IF name_tok.thrown # "" THEN name_tok
        ELSE IF too_long(name)
            THEN ParseError(name_tok.cur, "function name exceeds maximum length",
                            name_tok.node.start)
        ELSE IF lp.thrown # "" THEN lp
        ELSE IF rp.thrown # "" THEN rp
        ELSE bodied(block(toks, rp.cur))

RECURSIVE parse_loop(_, _, _)
\* while (!is_at_end ()) program.functions.push_back (function ());
parse_loop(toks, cur, funcs) ==
    LET pushed(f) ==
            IF f.thrown # "" THEN f
            ELSE parse_loop(toks, f.cur, Append(funcs, f.node))
    IN  IF ~is_at_end(toks, cur) THEN pushed(function(toks, cur))
        ELSE Ok(cur, Program(funcs))

\* Parser::parse
parse(toks) == parse_loop(toks, 0, <<>>)


(***************************************************************************)
(* Optimizer (optimizer.cpp).  The folding arithmetic is C++ int           *)
(* arithmetic: +, -, * and unary - overflow, and the most negative int     *)
(* divided by -1, are undefined behaviour; ub is what the build does       *)
(* there: "wrap" keeps the low 32 bits, "trap" stops the optimizer.        *)
(***************************************************************************)
UBOutcomes == {"wrap", "trap"}

Folded(e, val) == [expr |-> e, has |-> TRUE, v |-> val, trapped |-> FALSE]
Unfolded(e) == [expr |-> e, has |-> FALSE, v |-> 0, trapped |-> FALSE]
Trapped(e) == [expr |-> e, has |-> FALSE, v |-> 0, trapped |-> TRUE]

\* the value of a C++ int operation whose exact result may not fit
IntResult(fits, wrapped, ub) ==
    IF fits \/ ub = "wrap" THEN [trapped |-> FALSE, v |-> wrapped]
    ELSE [trapped |-> TRUE, v |-> 0]

\* return -val.value (); / return val.value () != 0 ? 0 : 1;
fold_unary(op, val, ub) ==
    IF op = "NEGATE" THEN IntResult(val # INT_MIN, Neg32(val), ub)
    ELSE [trapped |-> FALSE, v |-> IF val # 0 THEN 0 ELSE 1]

\* the switch with the operands of the subtraction exchanged
fold_binary_swapped(op, l, r, ub) ==
    CASE op = "SUB" -> IntResult(SubFits(r, l), Sub32(r, l), ub)
      [] op \in {"ADD", "MUL"} ->
            IntResult(IF op = "ADD" THEN AddFits(l, r) ELSE MulFits(l, r),
                      IF op = "ADD" THEN Add32(l, r) ELSE Mul32(l, r), ub)
      [] op = "DIV" -> IF l = INT_MIN /\ r = -1 THEN IntResult(FALSE, INT_MIN, ub)
                       ELSE IntResult(TRUE, TruncDiv(l, r), ub)
      [] op = "EQ"  -> [trapped |-> FALSE, v |-> IF l = r THEN 1 ELSE 0]
      [] op = "NE"  -> [trapped |-> FALSE, v |-> IF l # r THEN 1 ELSE 0]
      [] op = "LT"  -> [trapped |-> FALSE, v |-> IF l < r THEN 1 ELSE 0]
      [] op = "GT"  -> [trapped |-> FALSE, v |-> IF l > r THEN 1 ELSE 0]
      [] op = "AND" -> [trapped |-> FALSE, v |-> IF l # 0 /\ r # 0 THEN 1 ELSE 0]
      [] op = "OR"  -> [trapped |-> FALSE, v |-> IF l # 0 \/ r # 0 THEN 1 ELSE 0]

\* the switch over node.op of a BinaryOp with both operand values known and,
\* for DIV, r # 0
fold_binary(op, l, r, ub) ==
    CASE op = "ADD" -> IntResult(AddFits(l, r), Add32(l, r), ub)
      [] op = "SUB" -> IntResult(SubFits(l, r), Sub32(l, r), ub)
      [] op = "MUL" -> IntResult(MulFits(l, r), Mul32(l, r), ub)
      [] op = "DIV" -> IF l = INT_MIN /\ r = -1 THEN IntResult(FALSE, INT_MIN, ub)
                       ELSE IntResult(TRUE, TruncDiv(l, r), ub)
      [] op = "EQ"  -> [trapped |-> FALSE, v |-> IF l = r THEN 1 ELSE 0]
      [] op = "NE"  -> [trapped |-> FALSE, v |-> IF l # r THEN 1 ELSE 0]
      [] op = "LT"  -> [trapped |-> FALSE, v |-> IF l < r THEN 1 ELSE 0]
      [] op = "GT"  -> [trapped |-> FALSE, v |-> IF l > r THEN 1 ELSE 0]
      [] op = "AND" -> [trapped |-> FALSE, v |-> IF l # 0 /\ r # 0 THEN 1 ELSE 0]
      [] op = "OR"  -> [trapped |-> FALSE, v |-> IF l # 0 \/ r # 0 THEN 1 ELSE 0]

RECURSIVE fold_expr(_, _)
RECURSIVE fold_args(_, _, _, _)

\* for (auto& arg : node.args) fold_expr (arg);
fold_args(args, i, ub, done) ==
    LET folded(a) ==
            IF a.trapped THEN [args |-> done, trapped |-> TRUE]
            ELSE fold_args(args, i + 1, ub, Append(done, a.expr))
    IN  IF i > Len(args) THEN [args |-> done, trapped |-> FALSE]
        ELSE folded(fold_expr(args[i], ub))

\* fold_expr folding a division by 0 to 0
fold_expr_div0(expr, ub) ==
    LET replaced(res) ==
            IF res.trapped THEN Trapped(expr) ELSE Folded(IntLiteral(res.v), res.v)
        called(as) ==
            IF as.trapped THEN Trapped(expr)
            ELSE Unfolded(FuncCall(expr.name, as.args))
        unary_of(val) ==
            IF val.trapped THEN Trapped(expr)
            ELSE IF ~val.has THEN Unfolded(UnaryOp(expr.op, val.expr))
            ELSE replaced(fold_unary(expr.op, val.v, ub))
        binary_of(lval, rval) ==
            IF lval.trapped \/ rval.trapped THEN Trapped(expr)
            ELSE IF ~lval.has \/ ~rval.has
                THEN Unfolded(BinaryOp(expr.op, lval.expr, rval.expr))
            ELSE IF expr.op = "DIV" /\ rval.v = 0
                THEN replaced([trapped |-> FALSE, v |-> 0])
            ELSE replaced(fold_binary(expr.op, lval.v, rval.v, ub))
    IN  CASE expr.kind = "IntLiteral" -> Folded(expr, expr.value)
          [] expr.kind = "Identifier" -> Unfolded(expr)
          [] expr.kind = "FuncCall" -> called(fold_args(expr.args, 1, ub, <<>>))
          [] expr.kind = "UnaryOp" -> unary_of(fold_expr(expr.operand, ub))
          [] expr.kind = "BinaryOp" ->
                binary_of(fold_expr(expr.left, ub), fold_expr(expr.right, ub))

\* fold_expr folding a BinaryOp only over operands that were literals
fold_expr_shallow(expr, ub) ==
    LET replaced(res) ==
            IF res.trapped THEN Trapped(expr) ELSE Folded(IntLiteral(res.v), res.v)
        called(as) ==
            IF as.trapped THEN Trapped(expr)
            ELSE Unfolded(FuncCall(expr.name, as.args))
        unary_of(val) ==
            IF val.trapped THEN Trapped(expr)
            ELSE IF ~val.has THEN Unfolded(UnaryOp(expr.op, val.expr))
            ELSE replaced(fold_unary(expr.op, val.v, ub))
        binary_of(lval, rval) ==
            IF lval.trapped \/ rval.trapped THEN Trapped(expr)
            ELSE IF ~lval.has \/ ~rval.has
                THEN Unfolded(BinaryOp(expr.op, lval.expr, rval.expr))
            ELSE IF \/ expr.op = "DIV" /\ rval.v = 0
                    \/ expr.left.kind # "IntLiteral"
                    \/ expr.right.kind # "IntLiteral"
                THEN Unfolded(BinaryOp(expr.op, lval.expr, rval.expr))
            ELSE replaced(fold_binary(expr.op, lval.v, rval.v, ub))
    IN  CASE expr.kind = "IntLiteral" -> Folded(expr, expr.value)
          [] expr.kind = "Identifier" -> Unfolded(expr)
          [] expr.kind = "FuncCall" -> called(fold_args(expr.args, 1, ub, <<>>))
          [] expr.kind = "UnaryOp" -> unary_of(fold_expr(expr.operand, ub))
          [] expr.kind = "BinaryOp" ->
                binary_of(fold_expr(expr.left, ub), fold_expr(expr.right, ub))

\* [expr, has, v, trapped]: the node left in place of expr, the returned
\* optional<int>, and whether the optimizer was stopped inside
fold_expr(expr, ub) ==
    LET replaced(res) ==
            IF res.trapped THEN Trapped(expr) ELSE Folded(IntLiteral(res.v), res.v)
        called(as) ==
            IF as.trapped THEN Trapped(expr)
            ELSE Unfolded(FuncCall(expr.name, as.args))
        unary_of(val) ==
            IF val.trapped THEN Trapped(expr)
            ELSE IF ~val.has THEN Unfolded(UnaryOp(expr.op, val.expr))
            ELSE replaced(fold_unary(expr.op, val.v, ub))
        binary_of(lval, rval) ==
            IF lval.trapped \/ rval.trapped THEN Trapped(expr)
            ELSE IF ~lval.has \/ ~rval.has
                THEN Unfolded(BinaryOp(expr.op, lval.expr, rval.expr))
            ELSE IF expr.op = "DIV" /\ rval.v = 0
                THEN Unfolded(BinaryOp(expr.op, lval.expr, rval.expr))
            ELSE replaced(fold_binary(expr.op, lval.v, rval.v, ub))
    IN  CASE expr.kind = "IntLiteral" -> Folded(expr, expr.value)
          [] expr.kind = "Identifier" -> Unfolded(expr)
          [] expr.kind = "FuncCall" -> called(fold_args(expr.args, 1, ub, <<>>))
          [] expr.kind = "UnaryOp" -> unary_of(fold_expr(expr.operand, ub))
          [] expr.kind = "BinaryOp" ->
                binary_of(fold_expr(expr.left, ub), fold_expr(expr.right, ub))

RECURSIVE opt_stmt(_, _)
RECURSIVE opt_stmts(_, _, _, _)

\* the loop of opt_block putting the replacements in front
opt_stmts_front(stmts, i, ub, new_stmts) ==
    LET pushed(replacements) ==
            IF replacements.trapped THEN [stmts |-> new_stmts, trapped |-> TRUE]
            ELSE opt_stmts(stmts, i + 1, ub, replacements.stmts \o new_stmts)
    IN  IF i > Len(stmts) THEN [stmts |-> new_stmts, trapped |-> FALSE]
        ELSE pushed(opt_stmt(stmts[i], ub))

\* the loop of opt_block keeping a statement that has no replacement
opt_stmts_keep(stmts, i, ub, new_stmts) ==
    LET pushed(replacements) ==
            IF replacements.trapped THEN [stmts |-> new_stmts, trapped |-> TRUE]
            ELSE opt_stmts(stmts, i + 1, ub,
                           new_stmts \o (IF replacements.stmts = <<>>
                                             THEN <<stmts[i]>>
                                         ELSE replacements.stmts))
    IN  IF i > Len(stmts) THEN [stmts |-> new_stmts, trapped |-> FALSE]
        ELSE pushed(opt_stmt(stmts[i], ub))

\* the loop of opt_block: the replacements of every statement, in order
opt_stmts(stmts, i, ub, new_stmts) ==
    LET pushed(replacements) ==
            IF replacements.trapped THEN [stmts |-> new_stmts, trapped |-> TRUE]
            ELSE opt_stmts(stmts, i + 1, ub, new_stmts \o replacements.stmts)
    IN  IF i > Len(stmts) THEN [stmts |-> new_stmts, trapped |-> FALSE]
        ELSE pushed(opt_stmt(stmts[i], ub))

opt_block(blk, ub) ==
    LET moved(r) == [block |-> Block(r.stmts), trapped |-> r.trapped]
    IN  moved(opt_stmts(blk.statements, 1, ub, <<>>))

\* [stmts, trapped]: the statements that take the place of stmt
opt_stmt(stmt, ub) ==
    LET kept(node, trapped) == [stmts |-> <<node>>, trapped |-> trapped]
        decl(e) == kept(VarDecl(stmt.name, <<e.expr>>), e.trapped)
        assigned(e) == kept(Assignment(stmt.name, e.expr), e.trapped)
        returned(e) == kept(ReturnStmt(e.expr), e.trapped)
        stated(e) == kept(ExprStmt(e.expr), e.trapped)
        branched(val, then_block) ==
            IF val.trapped \/ then_block.trapped THEN kept(stmt, TRUE)
            ELSE IF val.has
                THEN IF val.v # 0
                        THEN kept(Block(then_block.block.statements), FALSE)
                     ELSE [stmts |-> <<>>, trapped |-> FALSE]
            ELSE kept(IfStmt(val.expr, then_block.block), FALSE)
        looped(c, body) ==
            kept(WhileStmt(c.expr, body.block), c.trapped \/ body.trapped)
        nested(b) == kept(b.block, b.trapped)
    IN  CASE stmt.kind = "VarDecl" ->
                IF stmt.init = <<>> THEN kept(stmt, FALSE)
                ELSE decl(fold_expr(stmt.init[1], ub))
          [] stmt.kind = "Assignment" -> assigned(fold_expr(stmt.value, ub))
          [] stmt.kind = "ReturnStmt" -> returned(fold_expr(stmt.value, ub))
          [] stmt.kind = "IfStmt" ->
                branched(fold_expr(stmt.condition, ub),
                         opt_block(stmt.then_block, ub))
          [] stmt.kind = "WhileStmt" ->
                looped(fold_expr(stmt.condition, ub), opt_block(stmt.body, ub))
          [] stmt.kind = "Block" -> nested(opt_block(stmt, ub))
          [] stmt.kind = "ExprStmt" -> stated(fold_expr(stmt.expression, ub))

opt_function(func, ub) ==
    LET made(b) ==
            [func |-> Function(func.name, func.params, b.block),
             trapped |-> b.trapped]
    IN  made(opt_block(func.body, ub))

RECURSIVE opt_functions(_, _, _, _)
\* for (auto& func : program.functions) opt_function (func);
opt_functions(funcs, i, ub, done) ==
    LET pushed(f) ==
            IF f.trapped THEN [program |-> Program(done), trapped |-> TRUE]
            ELSE opt_functions(funcs, i + 1, ub, Append(done, f.func))
    IN  IF i > Len(funcs) THEN [program |-> Program(done), trapped |-> FALSE]
        ELSE pushed(opt_function(funcs[i], ub))

\* Optimizer::optimize
optimize(prog, ub) == opt_functions(prog.functions, 1, ub, <<>>)

(***************************************************************************)
(* Codegen (codegen.cpp).  An assembly line is a record                    *)
(*   [op, a, b, n]: mnemonic, first operand, second operand, number.       *)
(* Operand "imm" is the immediate n, operand "mem" is DWORD PTR [rbp + n]  *)
(* (for lea: [rbp + n]); a label or jump target is the pair (a, n):        *)
(* (".L", 3) is .L3, (".Lfunc_", 2) is .Lfunc_2, (name, 0) a function.     *)
(***************************************************************************)
Ins(o, x, y, k) == [op |-> o, a |-> x, b |-> y, n |-> k]

regs_str_64 == <<"rbx", "r12", "r13">>

reg32(reg64) ==
    IF reg64 = "rbx" THEN "ebx"
    ELSE IF reg64 = "r12" THEN "r12d"
    ELSE IF reg64 = "r13" THEN "r13d"
    ELSE ""

reg8(reg64) ==
    IF reg64 = "rbx" THEN "bl"
    ELSE IF reg64 = "r12" THEN "r12b"
    ELSE IF reg64 = "r13" THEN "r13b"
    ELSE ""

arg_regs    == <<"edi", "esi", "edx", "ecx", "r8d", "r9d">>
\* the 64-bit argument registers with the first two exchanged
arg_regs_64_swapped == <<"rsi", "rdi", "rdx", "rcx", "r8", "r9">>

arg_regs_64 == <<"rdi", "rsi", "rdx", "rcx", "r8", "r9">>

MaxArgs == 6

EmptyMap == [x \in {} |-> 0]
MapPut(map, k, v) == [x \in DOMAIN map \cup {k} |-> IF x = k THEN v ELSE map[x]]

\* Member initialisers of Codegen::Codegen; thrown = "" while no exception
\* is in flight, ret is the value returned by the last alloc_reg / gen_expr.
NewCodegen ==
    [label_counter_   |-> 2,
     assembly_lines_  |-> <<>>,
     var_offsets_     |-> EmptyMap,
     next_var_offset_ |-> 0,
     reg_used_        |-> <<FALSE, FALSE, FALSE>>,
     epilogue_label_  |-> 0,
     thrown           |-> "",
     ret              |-> ""]

emit(c, line) == [c EXCEPT !.assembly_lines_ = Append(@, line)]

throw(c, what) == [c EXCEPT !.thrown = what, !.ret = ""]

\* alloc_reg without the scan for a free register
alloc_reg_first(c) == [c EXCEPT !.reg_used_[1] = TRUE, !.ret = regs_str_64[1]]

alloc_reg(c) ==
    IF \E i \in 1..3 : ~c.reg_used_[i]
        THEN LET i == CHOOSE j \in 1..3 :
                        ~c.reg_used_[j] /\ \A k \in 1..(j - 1) : c.reg_used_[k]
             IN  [c EXCEPT !.reg_used_[i] = TRUE, !.ret = regs_str_64[i]]
        ELSE [c EXCEPT !.ret = ""]

\* free_reg marking every scratch register free
free_reg_all(c, reg) == [c EXCEPT !.reg_used_ = <<FALSE, FALSE, FALSE>>]

free_reg(c, reg) ==
    IF \E i \in 1..3 : reg = regs_str_64[i]
        THEN LET i == CHOOSE j \in 1..3 : reg = regs_str_64[j]
             IN  [c EXCEPT !.reg_used_[i] = FALSE]
        ELSE c

\* The operator's instruction sequence of a BinaryOp on l_val / r_val
BinOpLines(op, l_val, r_val, l8, r8) ==
    CASE op = "ADD" -> <<Ins("add", l_val, r_val, 0)>>
      [] op = "SUB" -> <<Ins("sub", l_val, r_val, 0)>>
      [] op = "MUL" -> <<Ins("imul", l_val, r_val, 0)>>
      [] op = "DIV" ->
            (IF l_val # "eax" THEN <<Ins("mov", "eax", l_val, 0)>> ELSE <<>>)
            \o <<Ins("cdq", "", "", 0), Ins("idiv", r_val, "", 0)>>
            \o (IF l_val # "eax" THEN <<Ins("mov", l_val, "eax", 0)>> ELSE <<>>)
      [] op = "EQ" -> <<Ins("cmp", l_val, r_val, 0), Ins("sete", l8, "", 0),
                        Ins("movzx", l_val, l8, 0)>>
      [] op = "NE" -> <<Ins("cmp", l_val, r_val, 0), Ins("setne", l8, "", 0),
                        Ins("movzx", l_val, l8, 0)>>
      [] op = "LT" -> <<Ins("cmp", l_val, r_val, 0), Ins("setl", l8, "", 0),
                        Ins("movzx", l_val, l8, 0)>>
      [] op = "GT" -> <<Ins("cmp", l_val, r_val, 0), Ins("setg", l8, "", 0),
                        Ins("movzx", l_val, l8, 0)>>
      [] op = "AND" -> <<Ins("test", l_val, l_val, 0), Ins("setne", l8, "", 0),
                         Ins("test", r_val, r_val, 0), Ins("setne", r8, "", 0),
                         Ins("and", l8, r8, 0), Ins("movzx", l_val, l8, 0)>>
      [] op = "OR" -> <<Ins("or", l_val, r_val, 0), Ins("test", l_val, l_val, 0),
                        Ins("setne", l8, "", 0), Ins("movzx", l_val, l8, 0)>>

emit_all(c, lines) == [c EXCEPT !.assembly_lines_ = @ \o lines]

\* Store eax into a scratch register, or spill it (tail of FuncCall, BinaryOp)
home_eax(c) ==
    LET d == alloc_reg(c)
    IN  IF d.ret = "" THEN emit(d, Ins("push", "rax", "", 0))
        ELSE emit(d, Ins("mov", reg32(d.ret), "eax", 0))

RECURSIVE gen_expr(_, _)
RECURSIVE gen_args(_, _, _)

\* for (auto& arg : node.args) of the FuncCall case
gen_args(c, args, i) ==
    IF c.thrown # "" \/ i > Len(args) THEN c
    ELSE LET c1 == gen_expr(c, args[i])
             c2 == IF c1.thrown # "" THEN c1
                   ELSE IF c1.ret # ""
                       THEN free_reg(emit(c1, Ins("push", c1.ret, "", 0)), c1.ret)
                       ELSE c1
         IN  gen_args(c2, args, i + 1)

gen_expr(c, expr) ==
    IF c.thrown # "" THEN c
    ELSE CASE expr.kind = "IntLiteral" ->
            LET d == alloc_reg(c)
            IN  IF d.ret = "" THEN emit(d, Ins("push", "imm", "", expr.value))
                ELSE emit(d, Ins("mov", reg32(d.ret), "imm", expr.value))
      [] expr.kind = "Identifier" ->
            IF expr.name \notin DOMAIN c.var_offsets_
                THEN throw(c, "std::out_of_range")
            ELSE LET offset == c.var_offsets_[expr.name]
                     d == alloc_reg(c)
                 IN  IF d.ret = ""
                         THEN emit(emit(d, Ins("mov", "eax", "mem", offset)),
                                   Ins("push", "rax", "", 0))
                         ELSE emit(d, Ins("mov", reg32(d.ret), "mem", offset))
      [] expr.kind = "UnaryOp" ->
            LET c1 == gen_expr(c, expr.operand)
                operand_reg == c1.ret
                r  == reg32(operand_reg)
                r8 == reg8(operand_reg)
            IN  IF c1.thrown # "" THEN c1
                ELSE IF operand_reg # ""
                    THEN IF expr.op = "NEGATE"
                            THEN emit(c1, Ins("neg", r, "", 0))
                            ELSE emit_all(c1, <<Ins("test", r, r, 0),
                                                Ins("sete", r8, "", 0),
                                                Ins("movzx", r, r8, 0)>>)
                    ELSE emit_all(c1,
                            <<Ins("pop", "rax", "", 0)>>
                            \o (IF expr.op = "NEGATE"
                                   THEN <<Ins("neg", "eax", "", 0)>>
                                   ELSE <<Ins("test", "eax", "eax", 0),
                                          Ins("sete", "al", "", 0),
                                          Ins("movzx", "eax", "al", 0)>>)
                            \o <<Ins("push", "rax", "", 0)>>)
      [] expr.kind = "FuncCall" ->
            IF Len(expr.args) > MaxArgs THEN throw(c, "GenError")
            ELSE LET c1 == gen_args(c, expr.args, 1)
                     pops == [k \in 1..Len(expr.args) |->
                                Ins("pop", arg_regs_64[Len(expr.args) + 1 - k], "", 0)]
                 IN  IF c1.thrown # "" THEN c1
                     ELSE home_eax(emit_all(c1,
                            pops \o <<Ins("call", expr.name, "", 0)>>))
      [] expr.kind = "BinaryOp" ->
            LET c1 == gen_expr(c, expr.left)
                left_reg == c1.ret
                c2 == gen_expr(c1, expr.right)
                right_reg == c2.ret
                c3 == IF right_reg = "" THEN emit(c2, Ins("pop", "rcx", "", 0))
                      ELSE c2
                r_val == IF right_reg = "" THEN "ecx" ELSE reg32(right_reg)
                c4 == IF left_reg = "" THEN emit(c3, Ins("pop", "rax", "", 0))
                      ELSE c3
                l_val == IF left_reg = "" THEN "eax" ELSE reg32(left_reg)
                l8 == IF left_reg = "" THEN "al" ELSE reg8(left_reg)
                r8 == IF right_reg = "" THEN "cl" ELSE reg8(right_reg)
                c5 == emit_all(c4, BinOpLines(expr.op, l_val, r_val, l8, r8))
            IN  IF c1.thrown # "" THEN c1
                ELSE IF c2.thrown # "" THEN c2
                ELSE IF left_reg # ""
                    THEN [free_reg(c5, right_reg) EXCEPT !.ret = left_reg]
                ELSE IF right_reg # ""
                    THEN [emit(c5, Ins("mov", r_val, "eax", 0))
                            EXCEPT !.ret = right_reg]
                ELSE home_eax(c5)
      [] OTHER -> throw(c, "GenError")

\* The store of an evaluated value: mov to the slot, or pop rax first
store_value(c, offset) ==
    IF c.ret # ""
        THEN free_reg(emit(c, Ins("mov", "mem", reg32(c.ret), offset)), c.ret)
        ELSE emit_all(c, <<Ins("pop", "rax", "", 0),
                           Ins("mov", "mem", "eax", offset)>>)

\* test of an evaluated condition that keeps the condition's register
test_value_held(c) ==
    IF c.ret # ""
        THEN emit(c, Ins("test", reg32(c.ret), reg32(c.ret), 0))
        ELSE emit_all(c, <<Ins("pop", "rax", "", 0),
                           Ins("test", "eax", "eax", 0)>>)

\* test of an evaluated condition
test_value(c) ==
    IF c.ret # ""
        THEN free_reg(emit(c, Ins("test", reg32(c.ret), reg32(c.ret), 0)), c.ret)
        ELSE emit_all(c, <<Ins("pop", "rax", "", 0),
                           Ins("test", "eax", "eax", 0)>>)

\* a WhileStmt closed without the jump back to its loop label
while_close_once(c, loop_label, end_label) ==
    emit_all(c, <<Ins("jmp", ".L", "", end_label),
                  Ins("label", ".L", "", end_label)>>)

\* end of a WhileStmt: back to the loop label, then the end label
while_close(c, loop_label, end_label) ==
    emit_all(c, <<Ins("jmp", ".L", "", loop_label),
                  Ins("label", ".L", "", end_label)>>)

RECURSIVE gen_stmt(_, _)
RECURSIVE gen_stmts(_, _, _)

\* for (const auto& stmt : block.statements) gen_stmt (stmt);
gen_stmts(c, stmts, i) ==
    IF c.thrown # "" \/ i > Len(stmts) THEN c
    ELSE gen_stmts(gen_stmt(c, stmts[i]), stmts, i + 1)

gen_block(c, blk) == gen_stmts(c, blk.statements, 1)

gen_stmt(c, stmt) ==
    IF c.thrown # "" THEN c
    ELSE CASE stmt.kind = "ReturnStmt" ->
            LET c1 == gen_expr(c, stmt.value)
                c2 == IF c1.ret # ""
                        THEN free_reg(emit(c1, Ins("mov", "eax", reg32(c1.ret), 0)),
                                      c1.ret)
                        ELSE emit(c1, Ins("pop", "rax", "", 0))
            IN  IF c1.thrown # "" THEN c1
                ELSE emit(c2, Ins("jmp", ".Lfunc_", "", c.epilogue_label_))
      [] stmt.kind = "VarDecl" ->
            LET off == c.next_var_offset_ - 8
                c1 == emit([c EXCEPT !.next_var_offset_ = off,
                                     !.var_offsets_ = MapPut(@, stmt.name, off)],
                           Ins("sub", "rsp", "imm", 8))
                c2 == gen_expr(c1, stmt.init[1])
            IN  IF stmt.init = <<>> THEN c1
                ELSE IF c2.thrown # "" THEN c2
                ELSE store_value(c2, off)
      [] stmt.kind = "Assignment" ->
            LET c1 == gen_expr(c, stmt.value)
            IN  IF c1.thrown # "" THEN c1
                ELSE IF stmt.name \notin DOMAIN c1.var_offsets_
                    THEN throw(c1, "std::out_of_range")
                ELSE store_value(c1, c1.var_offsets_[stmt.name])
      [] stmt.kind = "IfStmt" ->
            LET else_label == c.label_counter_
                end_label  == c.label_counter_ + 1
                c1 == gen_expr([c EXCEPT !.label_counter_ = @ + 2], stmt.condition)
                c2 == emit(test_value(c1), Ins("je", ".L", "", else_label))
                c3 == gen_block(c2, stmt.then_block)
            IN  IF c1.thrown # "" THEN c1
                ELSE IF c3.thrown # "" THEN c3
                ELSE emit_all(c3, <<Ins("jmp", ".L", "", end_label),
                                    Ins("label", ".L", "", else_label),
                                    Ins("label", ".L", "", end_label)>>)
      [] stmt.kind = "WhileStmt" ->
            LET loop_label == c.label_counter_
                end_label  == c.label_counter_ + 1
                c0 == emit([c EXCEPT !.label_counter_ = @ + 2],
                           Ins("label", ".L", "", loop_label))
                c1 == gen_expr(c0, stmt.condition)
                c2 == emit(test_value(c1), Ins("je", ".L", "", end_label))
                c3 == gen_block(c2, stmt.body)
            IN  IF c1.thrown # "" THEN c1
                ELSE IF c3.thrown # "" THEN c3
                ELSE while_close(c3, loop_label, end_label)
      [] stmt.kind = "Block" -> gen_block(c, stmt)
      [] stmt.kind = "ExprStmt" ->
            LET c1 == gen_expr(c, stmt.expression)
            IN  IF c1.thrown # "" THEN c1
                ELSE IF c1.ret = "" THEN emit(c1, Ins("pop", "rax", "", 0))
                ELSE free_reg(c1, c1.ret)
      [] OTHER -> throw(c, "GenError")

Prologue(name) ==
    <<Ins("label", name, "", 0),
      Ins("push", "rbp", "", 0),
      Ins("mov", "rbp", "rsp", 0),
      Ins("push", "rbx", "", 0),
      Ins("push", "r12", "", 0),
      Ins("push", "r13", "", 0)>>

Epilogue(label) ==
    <<Ins("label", ".Lfunc_", "", label),
      Ins("lea", "rsp", "mem", -24),
      Ins("pop", "r13", "", 0),
      Ins("pop", "r12", "", 0),
      Ins("pop", "rbx", "", 0),
      Ins("pop", "rbp", "", 0),
      Ins("ret", "", "", 0)>>

RECURSIVE gen_params(_, _, _)
\* for (size_t i = 0; i < func.params.size (); ++i) of gen_function
gen_params(c, params, i) ==
    IF i > Len(params) THEN c
    ELSE LET off == c.next_var_offset_ - 8
         IN  gen_params(
                emit_all([c EXCEPT !.next_var_offset_ = off,
                                   !.var_offsets_ = MapPut(@, params[i].name, off)],
                         <<Ins("sub", "rsp", "imm", 8),
                           Ins("mov", "mem", arg_regs[i], off)>>),
                params, i + 1)

\* gen_function starting the label counter anew
gen_function_reset(c, func) ==
    LET c0 == emit_all([c EXCEPT !.var_offsets_ = EmptyMap,
                                 !.next_var_offset_ = -24,
                                 !.reg_used_ = <<FALSE, FALSE, FALSE>>,
                                 !.epilogue_label_ = 2,
                                 !.label_counter_ = 3],
                       Prologue(func.name))
        c1 == gen_params(c0, func.params, 1)
        c2 == gen_block(c1, func.body)
    IN  IF Len(func.params) > MaxArgs THEN throw(c0, "GenError")
        ELSE IF c2.thrown # "" THEN c2
        ELSE emit_all(c2, Epilogue(c2.epilogue_label_))

\* gen_function leaving the returns the first epilogue label to jump to
gen_function_first(c, func) ==
    LET c0 == emit_all([c EXCEPT !.var_offsets_ = EmptyMap,
                                 !.next_var_offset_ = -24,
                                 !.reg_used_ = <<FALSE, FALSE, FALSE>>,
                                 !.epilogue_label_ = 2,
                                 !.label_counter_ = @ + 1],
                       Prologue(func.name))
        c1 == gen_params(c0, func.params, 1)
        c2 == gen_block(c1, func.body)
    IN  IF Len(func.params) > MaxArgs THEN throw(c0, "GenError")
        ELSE IF c2.thrown # "" THEN c2
        ELSE emit_all(c2, Epilogue(c.label_counter_))

gen_function(c, func) ==
    LET c0 == emit_all([c EXCEPT !.var_offsets_ = EmptyMap,
                                 !.next_var_offset_ = -24,
                                 !.reg_used_ = <<FALSE, FALSE, FALSE>>,
                                 !.epilogue_label_ = c.label_counter_,
                                 !.label_counter_ = @ + 1],
                       Prologue(func.name))
        c1 == gen_params(c0, func.params, 1)
        c2 == gen_block(c1, func.body)
    IN  IF Len(func.params) > MaxArgs THEN throw(c0, "GenError")
        ELSE IF c2.thrown # "" THEN c2
        ELSE emit_all(c2, Epilogue(c2.epilogue_label_))

RECURSIVE gen_functions(_, _, _)
gen_functions(c, funcs, i) ==
    IF c.thrown # "" \/ i > Len(funcs) THEN c
    ELSE gen_functions(gen_function(c, funcs[i]), funcs, i + 1)

\* Codegen::Codegen (const Program& prog)
Codegen(prog) ==
    IF ~\E i \in 1..Len(prog.functions) : prog.functions[i].name = "main"
        THEN throw(NewCodegen, "GenError")
        ELSE gen_functions(NewCodegen, prog.functions, 1)


(***************************************************************************)
(* The machine that runs the assembly Codegen emitted, as the assembler    *)
(* and the System V process start-up would: registers hold 32-bit values   *)
(* (rsp and rbp hold byte addresses), the runtime stack is a map from      *)
(* 8-byte-aligned addresses to the value of the slot's low DWORD, a        *)
(* return address is the index of the line to continue with.               *)
(***************************************************************************)
Regs64 == {"rax", "rcx", "rdx", "rbx", "rsp", "rbp", "rsi", "rdi",
           "r8", "r9", "r12", "r13"}

Reg64Of(name) ==
    CASE name \in {"eax", "al"} -> "rax"
      [] name \in {"ecx", "cl"} -> "rcx"
      [] name = "edx" -> "rdx"
      [] name \in {"ebx", "bl"} -> "rbx"
      [] name = "esi" -> "rsi"
      [] name = "edi" -> "rdi"
      [] name = "r8d" -> "r8"
      [] name = "r9d" -> "r9"
      [] name \in {"r12d", "r12b"} -> "r12"
      [] name \in {"r13d", "r13b"} -> "r13"
      [] OTHER -> name

StackBase  == 4096   \* rsp at process start
ExitAddr   == 0      \* return address of main's caller
CallerRbx  == 1001   \* callee-saved values the caller of main holds
CallerR12  == 1012
CallerR13  == 1013
CallerRbp  == 8192

IdleMachine ==
    [status |-> "idle", pc |-> 0, regs |-> [r \in Regs64 |-> 0],
     flags |-> [valid |-> FALSE, zf |-> FALSE, lt |-> FALSE],
     mem |-> [a \in {} |-> 0], result |-> 0]

LabelAt(lines, a, n) ==
    {i \in 1..Len(lines) : lines[i].op = "label" /\ lines[i].a = a /\ lines[i].n = n}

\* The state in which the C runtime has just called main
StartMachine(lines) ==
    IF LabelAt(lines, "main", 0) = {}
        THEN [IdleMachine EXCEPT !.status = "fault:undefined label"]
        ELSE [IdleMachine EXCEPT
                !.status = "running",
                !.pc = CHOOSE i \in LabelAt(lines, "main", 0) : TRUE,
                !.regs = [r \in Regs64 |->
                            CASE r = "rsp" -> StackBase - 8
                              [] r = "rbp" -> CallerRbp
                              [] r = "rbx" -> CallerRbx
                              [] r = "r12" -> CallerR12
                              [] r = "r13" -> CallerR13
                              [] OTHER -> 0],
                !.mem = [a \in {StackBase - 8} |-> ExitAddr]]

Fault(mc, why) == [mc EXCEPT !.status = "fault:" \o why]

R(mc, name) == mc.regs[Reg64Of(name)]
SetR(mc, name, v) == [mc EXCEPT !.regs[Reg64Of(name)] = v]
Advance(mc) == [mc EXCEPT !.pc = @ + 1]
NoFlags(mc) == [mc EXCEPT !.flags.valid = FALSE]
SetFlags(mc, z, l) == [mc EXCEPT !.flags = [valid |-> TRUE, zf |-> z, lt |-> l]]

Push(mc, v) ==
    LET sp == mc.regs["rsp"] - 8
    IN  [mc EXCEPT !.regs["rsp"] = sp, !.mem = MapPut(@, sp, v)]

Jump(mc, lines, a, n) ==
    LET at == LabelAt(lines, a, n)
    IN  IF Cardinality(at) = 1 THEN [mc EXCEPT !.pc = CHOOSE i \in at : TRUE]
        ELSE IF at = {} THEN Fault(mc, "undefined label")
        ELSE Fault(mc, "duplicate label")

\* Condition of a setcc instruction under the current flags
Cond(mc, op) ==
    CASE op = "sete"  -> mc.flags.zf
      [] op = "setne" -> ~mc.flags.zf
      [] op = "setl"  -> mc.flags.lt
      [] op = "setg"  -> ~mc.flags.zf /\ ~mc.flags.lt

\* Effect of executing the line i on the machine mc
Exec(mc, lines, i) ==
    CASE i.op = "label" -> Advance(mc)
      [] i.op = "push" ->
            Advance(Push(mc, IF i.a = "imm" THEN i.n ELSE R(mc, i.a)))
      [] i.op = "pop" ->
            IF mc.regs["rsp"] \notin DOMAIN mc.mem THEN Fault(mc, "stack underflow")
            ELSE Advance([SetR(mc, i.a, mc.mem[mc.regs["rsp"]])
                            EXCEPT !.regs["rsp"] = mc.regs["rsp"] + 8])
      [] i.op = "mov" ->
            IF i.a = "mem"
                THEN Advance([mc EXCEPT !.mem = MapPut(@, mc.regs["rbp"] + i.n,
                                                       R(mc, i.b))])
            ELSE IF i.b = "mem"
                THEN IF mc.regs["rbp"] + i.n \notin DOMAIN mc.mem
                        THEN Fault(mc, "uninitialized read")
                        ELSE Advance(SetR(mc, i.a, mc.mem[mc.regs["rbp"] + i.n]))
            ELSE IF i.b = "imm" THEN Advance(SetR(mc, i.a, i.n))
            ELSE Advance(SetR(mc, i.a, R(mc, i.b)))
      [] i.op = "lea" -> Advance(SetR(mc, i.a, mc.regs["rbp"] + i.n))
      [] i.op = "sub" ->
            IF i.a = "rsp" THEN Advance(NoFlags(SetR(mc, "rsp", mc.regs["rsp"] - i.n)))
            ELSE Advance(NoFlags(SetR(mc, i.a, Sub32(R(mc, i.a), R(mc, i.b)))))
      [] i.op = "add" ->
            Advance(NoFlags(SetR(mc, i.a, Add32(R(mc, i.a), R(mc, i.b)))))
      [] i.op = "imul" ->
            Advance(NoFlags(SetR(mc, i.a, Mul32(R(mc, i.a), R(mc, i.b)))))
      [] i.op = "neg" ->
            Advance(NoFlags(SetR(mc, i.a, Neg32(R(mc, i.a)))))
      [] i.op = "or" ->
            Advance(NoFlags(SetR(mc, i.a, Or32(R(mc, i.a), R(mc, i.b)))))
      [] i.op = "and" ->   \* 8-bit operands
            Advance(NoFlags(SetR(mc, i.a,
                SetLow8(R(mc, i.a), BitAnd(Low8(R(mc, i.a)), Low8(R(mc, i.b)), 8)))))
      [] i.op = "cdq" ->
            Advance(SetR(mc, "edx", IF R(mc, "eax") < 0 THEN -1 ELSE 0))
      [] i.op = "idiv" ->
            IF R(mc, "edx") # (IF R(mc, "eax") < 0 THEN -1 ELSE 0)
                THEN Fault(mc, "idiv of unextended dividend")
            ELSE IF R(mc, i.a) = 0 \/ (R(mc, "eax") = INT_MIN /\ R(mc, i.a) = -1)
                THEN Fault(mc, "divide error")
            ELSE Advance(NoFlags(
                    [mc EXCEPT !.regs["rax"] = TruncDiv(R(mc, "eax"), R(mc, i.a)),
                               !.regs["rdx"] = TruncRem(R(mc, "eax"), R(mc, i.a))]))
      [] i.op = "cmp" ->
            Advance(SetFlags(mc, R(mc, i.a) = R(mc, i.b), R(mc, i.a) < R(mc, i.b)))
      [] i.op = "test" ->  \* both operands are the same register
            Advance(SetFlags(mc, R(mc, i.a) = 0, R(mc, i.a) < 0))
      [] i.op \in {"sete", "setne", "setl", "setg"} ->
            IF ~mc.flags.valid THEN Fault(mc, "undefined flags")
            ELSE Advance(SetR(mc, i.a,
                    SetLow8(R(mc, i.a), IF Cond(mc, i.op) THEN 1 ELSE 0)))
      [] i.op = "movzx" -> Advance(SetR(mc, i.a, Low8(R(mc, i.b))))
      [] i.op = "jmp" -> Jump(mc, lines, i.a, i.n)
      [] i.op = "je" ->
            IF ~mc.flags.valid THEN Fault(mc, "undefined flags")
            ELSE IF mc.flags.zf THEN Jump(mc, lines, i.a, i.n)
            ELSE Advance(mc)
      [] i.op = "call" -> Jump(Push(mc, mc.pc + 1), lines, i.a, 0)
      [] i.op = "ret" ->
            IF mc.regs["rsp"] \notin DOMAIN mc.mem THEN Fault(mc, "stack underflow")
            ELSE LET to == mc.mem[mc.regs["rsp"]]
                     mc1 == [mc EXCEPT !.regs["rsp"] = @ + 8]
                 IN  IF to = ExitAddr
                        THEN [mc1 EXCEPT !.status = "exited",
                                         !.result = R(mc, "eax")]
                        ELSE [mc1 EXCEPT !.pc = to]
      [] OTHER -> Fault(mc, "illegal instruction")


(***************************************************************************)
(* Meaning of the source language (32-bit signed integers, both operands   *)
(* of a logical operator evaluated, results normalised to 0 / 1).  The     *)
(* value of an expression is [ok, v]; ok is FALSE where the language       *)
(* gives no value (unknown name, zero divisor, INT_MIN / -1).              *)
(***************************************************************************)
Val(x) == [ok |-> TRUE, v |-> x]
NoVal  == [ok |-> FALSE, v |-> 0]
Bool01(b) == IF b THEN 1 ELSE 0

RefBinary(op, l, r) ==
    CASE op = "ADD" -> Val(Add32(l, r))
      [] op = "SUB" -> Val(Sub32(l, r))
      [] op = "MUL" -> Val(Mul32(l, r))
      [] op = "DIV" -> IF r = 0 \/ (l = INT_MIN /\ r = -1) THEN NoVal
                       ELSE Val(TruncDiv(l, r))
      [] op = "EQ"  -> Val(Bool01(l = r))
      [] op = "NE"  -> Val(Bool01(l # r))
      [] op = "LT"  -> Val(Bool01(l < r))
      [] op = "GT"  -> Val(Bool01(l > r))
      [] op = "AND" -> Val(Bool01(l # 0 /\ r # 0))
      [] op = "OR"  -> Val(Bool01(l # 0 \/ r # 0))

RECURSIVE RefEval(_, _)
RefEval(e, env) ==
    CASE e.kind = "IntLiteral" -> Val(e.value)
      [] e.kind = "Identifier" ->
            IF e.name \in DOMAIN env THEN Val(env[e.name]) ELSE NoVal
      [] e.kind = "UnaryOp" ->
            LET o == RefEval(e.operand, env)
            IN  IF ~o.ok THEN NoVal
                ELSE IF e.op = "NEGATE" THEN Val(Neg32(o.v))
                ELSE Val(Bool01(o.v = 0))
      [] e.kind = "BinaryOp" ->
            LET l == RefEval(e.left, env)
                r == RefEval(e.right, env)
            IN  IF ~l.ok \/ ~r.ok THEN NoVal ELSE RefBinary(e.op, l.v, r.v)
      [] OTHER -> NoVal

(***************************************************************************)
(* Compiling and running a program: the Codegen constructor, the start of  *)
(* the process at main, and one step per executed line.                    *)
(***************************************************************************)
NoTokens == <<>>
\* the compiler process while it runs: nothing on stderr, no file written
NoOutput ==
    [status |-> "running", code |-> 0, stderr |-> <<>>, written |-> FALSE,
     file |-> <<>>]
NoParse  == [done |-> FALSE]

\* Codegen cg {program}; on the parsed program, or after the optional
\* optimizing pass
Construct ==
    /\ phase \in {"parsed", "optimized"}
    /\ cg' = Codegen(program)
    /\ phase' = IF cg'.thrown = "" THEN "generated" ELSE "failed"
    /\ UNCHANGED <<source, tokens, parsed, program, m, proc>>

\* the assembled binary is started
Start ==
    /\ phase = "generated"
    /\ m' = StartMachine(cg.assembly_lines_)
    /\ phase' = "running"
    /\ UNCHANGED <<source, tokens, parsed, program, cg, proc>>

\* the processor executes the line at pc
Step ==
    /\ phase = "running"
    /\ m.status = "running"
    /\ m' = Exec(m, cg.assembly_lines_, cg.assembly_lines_[m.pc])
    /\ UNCHANGED <<phase, source, tokens, parsed, program, cg, proc>>

NextGen == Construct \/ Start \/ Step

InitGen(programs) ==
    /\ phase = "parsed"
    /\ source = ""
    /\ tokens = NoTokens
    /\ parsed = NoParse
    /\ program \in programs
    /\ cg = NewCodegen
    /\ m = IdleMachine
    /\ proc = NoOutput

(***************************************************************************)
(* Expression programs:  int main () { int a = 5; return e; }              *)
(* e ranges over every expression of at most one operator over the leaves, *)
(* placed under 0..MaxHeld pending left operands (so that e is evaluated   *)
(* with that many pool registers busy), over two-level trees, and over the *)
(* expressions of the end-to-end tests.                                    *)
(***************************************************************************)
MaxHeld == 4

ExprEnv == [x \in {"a"} |-> 5]

Leaves == {IntLiteral(0), IntLiteral(2), IntLiteral(7), Identifier("a")}

Flat ==
    Leaves
    \cup {UnaryOp(o, x) : o \in UnaryOps, x \in Leaves}
    \cup {BinaryOp(o, x, y) : o \in BinaryOps, x \in Leaves, y \in Leaves}

\* 100 - (90 - (80 - ... e)): e sits under k left operands
RECURSIVE Held(_, _)
Held(k, e) ==
    IF k = 0 THEN e
    ELSE BinaryOp("SUB", IntLiteral(10 * k + 60), Held(k - 1, e))

TwoLevel ==
    {BinaryOp(o1, BinaryOp(o2, IntLiteral(40), Identifier("a")),
                  BinaryOp(o3, IntLiteral(9), IntLiteral(2))) :
        o1 \in BinaryOps, o2 \in {"SUB", "DIV", "GT"}, o3 \in {"SUB", "DIV", "LT"}}
    \cup {UnaryOp(o1, BinaryOp(o2, IntLiteral(9), Identifier("a"))) :
            o1 \in UnaryOps, o2 \in BinaryOps}

TestExprs ==
    {BinaryOp("ADD", IntLiteral(2), BinaryOp("MUL", IntLiteral(3), IntLiteral(4))),
     BinaryOp("MUL", BinaryOp("ADD", IntLiteral(2), IntLiteral(3)),
                     BinaryOp("SUB", IntLiteral(10), IntLiteral(4)))}

Exprs ==
    {e \in {Held(k, x) : k \in 0..MaxHeld, x \in Flat} \cup TwoLevel \cup TestExprs :
        RefEval(e, ExprEnv).ok}

ExprProgram(e) ==
    Program(<<Function("main", <<>>,
        Block(<<VarDecl("a", <<IntLiteral(5)>>), ReturnStmt(e)>>))>>)

ExprPrograms == {ExprProgram(e) : e \in Exprs}

ReturnedExpr == program.functions[1].body.statements[2].value

InitExpr == InitGen(ExprPrograms)
SpecExpr == InitExpr /\ [][NextGen]_vars

\* C1: running the code emitted for `return e` never faults and ends with
\* the value of e in eax, the runtime stack and the caller's registers as
\* main found them: no operand held in rbx/r12/r13 or spilled to the stack
\* during the evaluation of a sibling was lost or swapped.
C1_ExprValue ==
    /\ phase # "failed"
    /\ m.status \in {"idle", "running", "exited"}
    /\ (m.status = "running" /\ cg.assembly_lines_[m.pc].op = "jmp") =>
         /\ m.regs["rax"] = RefEval(ReturnedExpr, ExprEnv).v
         /\ m.regs["rsp"] = m.regs["rbp"] + cg.next_var_offset_
    /\ m.status = "exited" =>
         /\ m.result = RefEval(ReturnedExpr, ExprEnv).v
         /\ m.regs["rsp"] = StackBase
         /\ m.regs["rbx"] = CallerRbx
         /\ m.regs["r12"] = CallerR12
         /\ m.regs["r13"] = CallerR13
         /\ m.regs["rbp"] = CallerRbp


\* C1 witness: a right-nested expression of five operands (its innermost
\* operands were spilled) has run to the end with the reference value.
C1_Witness ==
    /\ m.status = "exited"
    /\ ReturnedExpr = Held(3, BinaryOp("DIV", IntLiteral(7), Identifier("a")))
    /\ m.result = 90 - (80 - (70 - 7 \div 5))

(***************************************************************************)
(* Meaning of statements: one flat scope per function, a while repeats     *)
(* its body as long as its condition is nonzero.  A run is                 *)
(* [env, ok, returned, v]; fuel bounds the number of loop iterations.      *)
(***************************************************************************)
RECURSIVE RefStmt(_, _, _)
RECURSIVE RefStmts(_, _, _, _)

RefStmts(ss, i, st, fuel) ==
    IF i > Len(ss) \/ st.returned \/ ~st.ok THEN st
    ELSE RefStmts(ss, i + 1, RefStmt(ss[i], st, fuel), fuel)

RefStmt(s, st, fuel) ==
    LET bad == [st EXCEPT !.ok = FALSE]
    IN  IF st.returned \/ ~st.ok THEN st ELSE
        CASE s.kind = "VarDecl" ->
                IF s.init = <<>> THEN st
                ELSE LET x == RefEval(s.init[1], st.env)
                     IN  IF x.ok THEN [st EXCEPT !.env = MapPut(@, s.name, x.v)]
                         ELSE bad
          [] s.kind = "Assignment" ->
                LET x == RefEval(s.value, st.env)
                IN  IF x.ok THEN [st EXCEPT !.env = MapPut(@, s.name, x.v)]
                    ELSE bad
          [] s.kind = "ReturnStmt" ->
                LET x == RefEval(s.value, st.env)
                IN  IF x.ok THEN [st EXCEPT !.returned = TRUE, !.v = x.v]
                    ELSE bad
          [] s.kind = "ExprStmt" ->
                IF RefEval(s.expression, st.env).ok THEN st ELSE bad
          [] s.kind = "Block" -> RefStmts(s.statements, 1, st, fuel)
          [] s.kind = "IfStmt" ->
                LET x == RefEval(s.condition, st.env)
                IN  IF ~x.ok THEN bad
                    ELSE IF x.v # 0
                        THEN RefStmts(s.then_block.statements, 1, st, fuel)
                    ELSE st
          [] s.kind = "WhileStmt" ->
                LET x == RefEval(s.condition, st.env)
                IN  IF ~x.ok \/ fuel = 0 THEN bad
                    ELSE IF x.v # 0
                        THEN RefStmt(s, RefStmts(s.body.statements, 1, st, fuel),
                                     fuel - 1)
                    ELSE st

\* the run of function f on the arguments args (a sequence of values)
RefCall(f, args, fuel) ==
    RefStmts(f.body.statements, 1,
             [env |-> [x \in {f.params[i].name : i \in 1..Len(f.params)} |->
                         args[CHOOSE i \in 1..Len(f.params) :
                                /\ f.params[i].name = x
                                /\ \A j \in (i + 1)..Len(f.params) :
                                        f.params[j].name # x]],
              ok |-> TRUE, returned |-> FALSE, v |-> 0],
             fuel)

(***************************************************************************)
(* Loop programs.                                                          *)
(***************************************************************************)
MaxCount == 10      \* largest loop limit N
Fuel == 2 * MaxCount + 4

Lt(x, y)  == BinaryOp("LT", x, y)
Add(x, y) == BinaryOp("ADD", x, y)
Sub(x, y) == BinaryOp("SUB", x, y)
Id(n)     == Identifier(n)
Lit(v)    == IntLiteral(v)
Main(ss)  == Program(<<Function("main", <<>>, Block(ss))>>)

\* int x = A; while (x < N) { x = x + S; } return x;
CountLoop(A, N, S) ==
    Main(<<VarDecl("x", <<Lit(A)>>),
           WhileStmt(Lt(Id("x"), Lit(N)),
                     Block(<<Assignment("x", Add(Id("x"), Lit(S)))>>)),
           ReturnStmt(Id("x"))>>)

\* int i = 0; int sum = 0; while (i < N) { sum = sum + i; i = i + 1; } return sum;
SumLoop(N) ==
    Main(<<VarDecl("i", <<Lit(0)>>), VarDecl("sum", <<Lit(0)>>),
           WhileStmt(Lt(Id("i"), Lit(N)),
                     Block(<<Assignment("sum", Add(Id("sum"), Id("i"))),
                             Assignment("i", Add(Id("i"), Lit(1)))>>)),
           ReturnStmt(Id("sum"))>>)

\* int x = N; int y = 0; while (x) { x = x - 1; y = y + 2; } return y;
DownLoop(N) ==
    Main(<<VarDecl("x", <<Lit(N)>>), VarDecl("y", <<Lit(0)>>),
           WhileStmt(Id("x"),
                     Block(<<Assignment("x", Sub(Id("x"), Lit(1))),
                             Assignment("y", Add(Id("y"), Lit(2)))>>)),
           ReturnStmt(Id("y"))>>)

\* int i = 0; int t = 0;
\* while (i < N) { int j = 0; while (j < 2) { t = t + i; j = j + 1; } i = i + 1; }
\* return t;
NestedLoop(N) ==
    Main(<<VarDecl("i", <<Lit(0)>>), VarDecl("t", <<Lit(0)>>),
           WhileStmt(Lt(Id("i"), Lit(N)),
                Block(<<VarDecl("j", <<Lit(0)>>),
                        WhileStmt(Lt(Id("j"), Lit(2)),
                            Block(<<Assignment("t", Add(Id("t"), Id("i"))),
                                    Assignment("j", Add(Id("j"), Lit(1)))>>)),
                        Assignment("i", Add(Id("i"), Lit(1)))>>)),
           ReturnStmt(Id("t"))>>)

\* int x = 0; while (x < N) { x = x + 1; if (x == 3) { return 77; } } return x;
ExitLoop(N) ==
    Main(<<VarDecl("x", <<Lit(0)>>),
           WhileStmt(Lt(Id("x"), Lit(N)),
                Block(<<Assignment("x", Add(Id("x"), Lit(1))),
                        IfStmt(BinaryOp("EQ", Id("x"), Lit(3)),
                               Block(<<ReturnStmt(Lit(77))>>))>>)),
           ReturnStmt(Id("x"))>>)

LoopPrograms ==
    {CountLoop(A, N, S) : A \in {0, 4}, N \in 0..MaxCount, S \in {1, 3}}
    \cup {SumLoop(N) : N \in 0..MaxCount}
    \cup {DownLoop(N) : N \in 0..MaxCount}
    \cup {NestedLoop(N) : N \in 0..MaxCount}
    \cup {ExitLoop(N) : N \in 0..MaxCount}

InitLoop == InitGen(LoopPrograms)
SpecLoop == InitLoop /\ [][NextGen]_vars

RefMain == RefCall(program.functions[1], <<>>, Fuel)

\* the lines of the first while statement of main: its loop label, the je
\* that leaves it and the jmp that closes its body
WhileHead == CHOOSE i \in 1..Len(cg.assembly_lines_) :
                /\ cg.assembly_lines_[i].op = "label"
                /\ cg.assembly_lines_[i].a = ".L"
                /\ cg.assembly_lines_[i].n = 3
WhileExit == CHOOSE i \in 1..Len(cg.assembly_lines_) :
                /\ cg.assembly_lines_[i].op = "je"
                /\ cg.assembly_lines_[i].n = 4
WhileEnd  == CHOOSE i \in 1..Len(cg.assembly_lines_) :
                /\ cg.assembly_lines_[i].op = "label"
                /\ cg.assembly_lines_[i].a = ".L"
                /\ cg.assembly_lines_[i].n = 4
\* the line that closes the body, right before the end label
WhileBack == WhileEnd - 1

\* value of the loop condition in the variables as the machine holds them
MachineEnv ==
    [x \in DOMAIN cg.var_offsets_ |->
        IF m.regs["rbp"] + cg.var_offsets_[x] \in DOMAIN m.mem
            THEN m.mem[m.regs["rbp"] + cg.var_offsets_[x]] ELSE 0]
LoopCond == program.functions[1].body.statements[
                CHOOSE i \in 1..Len(program.functions[1].body.statements) :
                    program.functions[1].body.statements[i].kind = "WhileStmt"
            ].condition

\* C2 (result): a loop program never faults and returns what the source
\* program means; `int x = 0; while (x < 10) { x = x + 1; } return x;`
\* returns 10.
C2_LoopResult ==
    /\ phase # "failed"
    /\ m.status \in {"idle", "running", "exited"}
    /\ m.status = "exited" =>
         /\ RefMain.ok /\ RefMain.returned
         /\ m.result = RefMain.v
         /\ program = CountLoop(0, 10, 1) => m.result = 10

\* C2 (control): at the je of the while the condition has just been
\* evaluated on the current variables; the step leaves the loop (to the
\* line after the end label's position) exactly when it is 0 and enters
\* the body otherwise; the jmp closing the body goes back to the loop
\* label, from where the condition is evaluated again.
C2_LoopControl ==
    [][/\ (m.status = "running" /\ m.pc = WhileExit) =>
            /\ m'.status = "running"
            /\ (RefEval(LoopCond, MachineEnv).v = 0) <=> (m'.pc = WhileEnd)
            /\ (RefEval(LoopCond, MachineEnv).v # 0) <=> (m'.pc = WhileExit + 1)
       /\ (m.status = "running" /\ m.pc = WhileBack) => m'.pc = WhileHead
       /\ (m.status = "running" /\ m'.status = "running" /\ m'.pc = WhileEnd) =>
            m.pc = WhileExit
      ]_vars

C2_Loop == []C2_LoopResult /\ C2_LoopControl

\* C2 witness: the sample loop has run its ten iterations and returned 10.
C2_Witness ==
    /\ m.status = "exited" /\ program = CountLoop(0, 10, 1) /\ m.result = 10


(***************************************************************************)
(* Programs at the limits of Codegen: parameter and argument counts        *)
(* around six, programs without main, names that are not declared.         *)
(***************************************************************************)
MaxParams == 7      \* largest parameter / argument count tried

PNames == <<"p1", "p2", "p3", "p4", "p5", "p6", "p7", "p8", "p9">>

\* int f (int p1, ..., int pn) { return pn; }
FnWithParams(n) ==
    Function("f", [i \in 1..n |-> Param(PNames[i])],
             Block(<<ReturnStmt(IF n = 0 THEN Lit(1) ELSE Id(PNames[n]))>>))

\* f (1, ..., k)
CallWithArgs(k) == FuncCall("f", [i \in 1..k |-> Lit(i)])

MainOf(ss) == Function("main", <<>>, Block(ss))

LimitPrograms ==
    {Program(<<FnWithParams(n), MainOf(<<ReturnStmt(CallWithArgs(k))>>)>>) :
        n \in 0..MaxParams, k \in 0..MaxParams}
    \cup {Program(<<MainOf(<<ReturnStmt(Lit(1))>>), FnWithParams(n)>>) :
            n \in 0..MaxParams}
    \cup {Program(<<FnWithParams(6),
                    MainOf(<<IfStmt(Lit(1), Block(<<ExprStmt(
                        Add(Lit(1), UnaryOp("NEGATE", CallWithArgs(k))))>>)),
                             ReturnStmt(Lit(0))>>)>>) : k \in 0..MaxParams}

NoMainPrograms ==
    {Program(<<>>)}
    \cup {Program(<<Function(nm, <<>>, Block(<<ReturnStmt(Lit(1))>>))>>) :
            nm \in {"bad_func", "Main", "main_", "mai", "amain"}}
    \cup {Program(<<FnWithParams(n)>>) : n \in {0, 6, 7}}

\* programs in which main uses the name y (or x, a, v) where it is unknown
UnknownNamePrograms ==
    {Main(ss) : ss \in {
        <<ReturnStmt(Id("y"))>>,
        <<Assignment("y", Lit(1)), ReturnStmt(Lit(0))>>,
        <<VarDecl("x", <<Lit(1)>>), ReturnStmt(Add(Id("x"), Id("y")))>>,
        <<ReturnStmt(Id("x")), VarDecl("x", <<Lit(1)>>)>>,
        <<Assignment("x", Lit(1)), VarDecl("x", <<Lit(0)>>), ReturnStmt(Id("x"))>>,
        <<IfStmt(Id("y"), Block(<<ReturnStmt(Lit(1))>>)), ReturnStmt(Lit(0))>>,
        <<WhileStmt(Id("y"), Block(<<ReturnStmt(Lit(1))>>)), ReturnStmt(Lit(0))>>,
        <<ExprStmt(Id("y")), ReturnStmt(Lit(0))>>,
        <<VarDecl("x", <<Id("y")>>), ReturnStmt(Lit(0))>>,
        <<ReturnStmt(UnaryOp("NOT", Id("y")))>>,
        <<Block(<<Assignment("y", Lit(2))>>), ReturnStmt(Lit(0))>>}}
    \cup {Program(<<FnWithParams(1), MainOf(<<ReturnStmt(Id("p1"))>>)>>),
          Program(<<FnWithParams(1), MainOf(<<ReturnStmt(FuncCall("f", <<Id("y")>>))>>)>>),
          Program(<<Function("f", <<>>, Block(<<VarDecl("v", <<Lit(1)>>),
                                                ReturnStmt(Id("v"))>>)),
                    MainOf(<<ReturnStmt(Id("v"))>>)>>)}

\* programs in which every name is known although its declaration is nested
KnownNamePrograms ==
    {Main(ss) : ss \in {
        <<IfStmt(Lit(1), Block(<<VarDecl("z", <<Lit(3)>>)>>)), ReturnStmt(Id("z"))>>,
        <<VarDecl("x", <<Lit(4)>>), Block(<<Assignment("x", Lit(6))>>),
          ReturnStmt(Id("x"))>>,
        <<VarDecl("x", <<Lit(1)>>), VarDecl("x", <<Lit(2)>>), ReturnStmt(Id("x"))>>}}
    \cup {Program(<<FnWithParams(2),
                    MainOf(<<VarDecl("p1", <<Lit(8)>>),
                             ReturnStmt(FuncCall("f", <<Id("p1"), Lit(9)>>))>>)>>)}

\* programs with an unknown name and a count above the limit
MixedPrograms ==
    {Program(<<FnWithParams(1),
               MainOf(<<ReturnStmt(Add(Id("y"), CallWithArgs(7)))>>)>>),
     Program(<<FnWithParams(1),
               MainOf(<<ReturnStmt(Add(CallWithArgs(7), Id("y")))>>)>>),
     Program(<<MainOf(<<ReturnStmt(Id("y"))>>), FnWithParams(7)>>),
     Program(<<FnWithParams(7), MainOf(<<ReturnStmt(Id("y"))>>)>>),
     Program(<<Function("g", <<>>, Block(<<ReturnStmt(Id("y"))>>))>>)}

ErrPrograms ==
    LimitPrograms \cup NoMainPrograms \cup UnknownNamePrograms
    \cup KnownNamePrograms \cup MixedPrograms

InitErr == InitGen(ErrPrograms)
SpecErr == InitErr /\ [][NextGen]_vars

\* what the claims say about a program, read off the AST
HasMain(prog) ==
    \E i \in 1..Len(prog.functions) : prog.functions[i].name = "main"

RECURSIVE ExprCalls(_)
\* the numbers of arguments of the calls in an expression
ExprCalls(e) ==
    CASE e.kind = "UnaryOp" -> ExprCalls(e.operand)
      [] e.kind = "BinaryOp" -> ExprCalls(e.left) \cup ExprCalls(e.right)
      [] e.kind = "FuncCall" ->
            {Len(e.args)} \cup UNION {ExprCalls(e.args[i]) : i \in 1..Len(e.args)}
      [] OTHER -> {}

RECURSIVE StmtCalls(_)
StmtCalls(s) ==
    CASE s.kind = "VarDecl" -> IF s.init = <<>> THEN {} ELSE ExprCalls(s.init[1])
      [] s.kind = "Assignment" -> ExprCalls(s.value)
      [] s.kind = "ReturnStmt" -> ExprCalls(s.value)
      [] s.kind = "ExprStmt" -> ExprCalls(s.expression)
      [] s.kind = "IfStmt" ->
            ExprCalls(s.condition)
            \cup UNION {StmtCalls(s.then_block.statements[i]) :
                            i \in 1..Len(s.then_block.statements)}
      [] s.kind = "WhileStmt" ->
            ExprCalls(s.condition)
            \cup UNION {StmtCalls(s.body.statements[i]) :
                            i \in 1..Len(s.body.statements)}
      [] s.kind = "Block" ->
            UNION {StmtCalls(s.statements[i]) : i \in 1..Len(s.statements)}

OverLimit(prog) ==
    \E i \in 1..Len(prog.functions) :
        \/ Len(prog.functions[i].params) > 6
        \/ \E k \in StmtCalls(prog.functions[i].body) : k > 6

RECURSIVE ExprUnknown(_, _)
\* e reads a name outside the set known
ExprUnknown(e, known) ==
    CASE e.kind = "Identifier" -> e.name \notin known
      [] e.kind = "UnaryOp" -> ExprUnknown(e.operand, known)
      [] e.kind = "BinaryOp" ->
            ExprUnknown(e.left, known) \/ ExprUnknown(e.right, known)
      [] e.kind = "FuncCall" ->
            \E i \in 1..Len(e.args) : ExprUnknown(e.args[i], known)
      [] OTHER -> FALSE

RECURSIVE StmtsUnknown(_, _, _)
\* [bad, known]: walking the statements from i on in traversal order, a name
\* is used that is neither in known nor declared by a VarDecl met before
StmtsUnknown(ss, i, st) ==
    IF st.bad \/ i > Len(ss) THEN st
    ELSE LET s == ss[i]
             st1 ==
                CASE s.kind = "VarDecl" ->
                        [bad |-> s.init # <<>> /\
                                 ExprUnknown(s.init[1], st.known \cup {s.name}),
                         known |-> st.known \cup {s.name}]
                  [] s.kind = "Assignment" ->
                        [st EXCEPT !.bad = s.name \notin st.known
                                           \/ ExprUnknown(s.value, st.known)]
                  [] s.kind = "ReturnStmt" ->
                        [st EXCEPT !.bad = ExprUnknown(s.value, st.known)]
                  [] s.kind = "ExprStmt" ->
                        [st EXCEPT !.bad = ExprUnknown(s.expression, st.known)]
                  [] s.kind = "IfStmt" ->
                        IF ExprUnknown(s.condition, st.known)
                            THEN [st EXCEPT !.bad = TRUE]
                            ELSE StmtsUnknown(s.then_block.statements, 1, st)
                  [] s.kind = "WhileStmt" ->
                        IF ExprUnknown(s.condition, st.known)
                            THEN [st EXCEPT !.bad = TRUE]
                            ELSE StmtsUnknown(s.body.statements, 1, st)
                  [] s.kind = "Block" -> StmtsUnknown(s.statements, 1, st)
         IN  StmtsUnknown(ss, i + 1, st1)

HasUnknownName(prog) ==
    \E i \in 1..Len(prog.functions) :
        StmtsUnknown(prog.functions[i].body.statements, 1,
                     [bad |-> FALSE,
                      known |-> {prog.functions[i].params[j].name :
                                    j \in 1..Len(prog.functions[i].params)}]).bad

\* C3: Codegen's constructor raises GenError when main is missing, a
\* function has more than 6 parameters or a call has more than 6 arguments,
\* and accepts programs within the limits (6 parameters, 6 arguments).
C3_LimitsRaiseGenError ==
    phase # "parsed" =>
        /\ (~HasMain(program) \/ OverLimit(program)) =>
                (phase = "failed" /\ cg.thrown = "GenError")
        /\ (HasMain(program) /\ ~OverLimit(program) /\ ~HasUnknownName(program)) =>
                phase # "failed"

\* C4: a body that reads or assigns a name that is neither a parameter nor
\* declared by an earlier VarDecl makes the constructor fail with GenError.
C4_UnknownNameRaisesGenError ==
    (phase # "parsed" /\ HasUnknownName(program)) =>
        (phase = "failed" /\ cg.thrown = "GenError")

(***************************************************************************)
(* The front end: Lexer::string_to_tokens on the source text, then         *)
(* Parser::parse on the tokens (main.cpp); the parser tests hand a token   *)
(* vector to the Parser directly.                                          *)
(***************************************************************************)
NoProgram == Program(<<>>)

\* Lexer lexer; tokens = lexer.string_to_tokens (source);
Lex ==
    /\ phase = "source"
    /\ tokens' = string_to_tokens(source)
    /\ phase' = "lexed"
    /\ UNCHANGED <<source, parsed, program, cg, m, proc>>

\* Parser parser {tokens}; program = parser.parse ();
Parse ==
    /\ phase = "lexed"
    /\ LET left(r) ==
               /\ parsed' = [done |-> TRUE, cur |-> r.cur, thrown |-> r.thrown,
                             msg |-> r.msg, loc |-> r.loc]
               /\ program' = IF r.thrown = "" THEN r.node ELSE program
               /\ phase' = IF r.thrown = "" THEN "parsed" ELSE "parse failed"
       IN  left(parse(tokens))
    /\ UNCHANGED <<source, tokens, cg, m, proc>>

NextParse == Lex \/ Parse

InitParse(sources, vectors) ==
    /\ \/ phase = "source" /\ source \in sources /\ tokens = NoTokens
       \/ phase = "lexed" /\ source = "" /\ tokens \in vectors
    /\ parsed = NoParse
    /\ program = NoProgram
    /\ cg = NewCodegen
    /\ m = IdleMachine
    /\ proc = NoOutput

(***************************************************************************)
(* Source texts and token vectors the front end is run on.                 *)
(***************************************************************************)
MaxChainOps  == 3   \* operators in a chain of bare operands
MaxSignedOps == 1   \* operators in a chain whose operands carry unary signs
MaxNameLen   == 34  \* longest declared name
MaxListed    == 3   \* longest parameter list

ReturnSource(e) == "int main () { return " \o e \o "; }"

OperandAt == <<"a", "2", "c", "4", "e", "6", "g">>
OpTexts == {"||", "&&", "==", "!=", "<", ">", "+", "-", "*", "/"}
SignTexts == {"", "-", "!", "- !", "!-"}

RECURSIVE Chains(_, _, _)
\* the chains of n operators over the operands k, k+1, ..; each operand
\* carries one of the given sign prefixes
Chains(k, n, signs) ==
    IF n = 0 THEN {sg \o OperandAt[k] : sg \in signs}
    ELSE {sg \o OperandAt[k] \o " " \o o \o " " \o rest :
            sg \in signs, o \in OpTexts, rest \in Chains(k + 1, n - 1, signs)}

ChainExprs ==
    UNION {Chains(1, n, {""}) : n \in 0..MaxChainOps}
    \cup UNION {Chains(1, n, SignTexts) : n \in 0..MaxSignedOps}
ChainSources == {ReturnSource(e) : e \in ChainExprs}

\* expressions written out with the tree the grammar gives them
Examples ==
    <<  <<"a && b || c",
          BinaryOp("OR", BinaryOp("AND", Identifier("a"), Identifier("b")),
                   Identifier("c"))>>,
        <<"a || b && c",
          BinaryOp("OR", Identifier("a"),
                   BinaryOp("AND", Identifier("b"), Identifier("c")))>>,
        <<"1 + 2 * 3",
          BinaryOp("ADD", IntLiteral(1), BinaryOp("MUL", IntLiteral(2), IntLiteral(3)))>>,
        <<"(1 + 2) * 3",
          BinaryOp("MUL", BinaryOp("ADD", IntLiteral(1), IntLiteral(2)), IntLiteral(3))>>,
        <<"a - (b - c)",
          BinaryOp("SUB", Identifier("a"),
                   BinaryOp("SUB", Identifier("b"), Identifier("c")))>>,
        <<"a - b - c",
          BinaryOp("SUB", BinaryOp("SUB", Identifier("a"), Identifier("b")),
                   Identifier("c"))>>,
        <<"a / b * c",
          BinaryOp("MUL", BinaryOp("DIV", Identifier("a"), Identifier("b")),
                   Identifier("c"))>>,
        <<"a < b == c > d",
          BinaryOp("GT", BinaryOp("EQ", BinaryOp("LT", Identifier("a"), Identifier("b")),
                                  Identifier("c")),
                   Identifier("d"))>>,
        <<"a + b < c * d",
          BinaryOp("LT", BinaryOp("ADD", Identifier("a"), Identifier("b")),
                   BinaryOp("MUL", Identifier("c"), Identifier("d")))>>,
        <<"- ! - a",
          UnaryOp("NEGATE", UnaryOp("NOT", UnaryOp("NEGATE", Identifier("a"))))>>,
        <<"-a * !b",
          BinaryOp("MUL", UnaryOp("NEGATE", Identifier("a")),
                   UnaryOp("NOT", Identifier("b")))>>,
        <<"!(a && b)",
          UnaryOp("NOT", BinaryOp("AND", Identifier("a"), Identifier("b")))>>,
        <<"a * -(b + 1)",
          BinaryOp("MUL", Identifier("a"),
                   UnaryOp("NEGATE", BinaryOp("ADD", Identifier("b"), IntLiteral(1))))>>,
        <<"((a))", Identifier("a")>>  >>
ExampleSources == {ReturnSource(Examples[i][1]) : i \in DOMAIN Examples}

RECURSIVE Rep(_, _)
Rep(c, n) == IF n = 0 THEN "" ELSE c \o Rep(c, n - 1)

NameKinds == {"decl", "init", "func", "second"}
NameCase(kind, name) ==
    CASE kind = "decl" -> "int main () {\n  int " \o name \o ";\n  return 0;\n}"
      [] kind = "init" ->
            "int main () { int " \o name \o " = 1; return " \o name \o "; }"
      [] kind = "func" -> "int " \o name \o " () { return 0; }"
      [] kind = "second" ->
            "int main () { return 0; }\nint " \o name \o " () { return 1; }"
\* where the Lexer must place the name of each case
NameStart(kind) ==
    CASE kind = "decl" -> [line |-> 2, col |-> 7]
      [] kind = "init" -> [line |-> 1, col |-> 19]
      [] kind = "func" -> [line |-> 1, col |-> 5]
      [] kind = "second" -> [line |-> 2, col |-> 5]
NameTable == [k \in NameKinds |-> [n \in 1..MaxNameLen |-> NameCase(k, Rep("n", n))]]
NameSources == {NameTable[k][n] : k \in NameKinds, n \in 1..MaxNameLen}

LiteralTexts == {"0", "7", "2147483647", "2147483648", "4294967296",
                 "99999999999999999999", "00000000000000000012"}
LiteralSources == {ReturnSource(d) : d \in LiteralTexts}

FullSource ==
    "int main ()\n{\n  int x = 1;\n  y = x;\n  if (x) { int y; }\n"
    \o "  while (y) { x; }\n  { }\n  return !y;\n}\nint f () { }\n"
\* every text that is a prefix of the full program
PrefixSources == {SubSeq(FullSource, 1, k) : k \in 0..Len(FullSource)}
OddSources == {"main () { }", "int main () { x = ; }", "int main () { if x { } }",
               "int main () { int = 3; }", "int main () { return 1 + ; }",
               "int main () { return (1 + 2; }", "int main () { return 1, 2; }",
               "int main () { return 1 }", "int main () { return a b; }",
               "int main () { while (1 { } }", "int 3 () { }", "int main { }",
               "int main () { return ); }", "int main () return 0;", "@"}

\* the token helper of the parser tests: every token at line 1, column 1
tok(type, lexeme) == Token(type, 1, 1, lexeme)

ParamNames == <<"a", "b", "c", "d">>
RECURSIVE ParamList(_)
ParamList(n) ==
    IF n = 1 THEN <<tok("INT_TYPE", "int"), tok("IDENTIFIER", ParamNames[1])>>
    ELSE ParamList(n - 1)
         \o <<tok("COMMA", ""), tok("INT_TYPE", "int"), tok("IDENTIFIER", ParamNames[n])>>
\* int f (int a, int b, ...) { return a; }
ParamTokens(n) ==
    <<tok("INT_TYPE", "int"), tok("IDENTIFIER", "f"), tok("L_PAREN", "")>>
    \o ParamList(n)
    \o <<tok("R_PAREN", ""), tok("L_BRACE", ""), tok("RETURN", "return"),
         tok("IDENTIFIER", "a"), tok("SEMICOLON", ""), tok("R_BRACE", ""),
         tok("END_OF_FILE", "")>>
ParamVectors == {ParamTokens(n) : n \in 1..MaxListed}
OneParamSource == "int f (int a) { return a; }"

RECURSIVE ArgList(_)
ArgList(n) ==
    IF n = 1 THEN <<tok("INT_LITERAL", "1")>>
    ELSE ArgList(n - 1) \o <<tok("COMMA", ""), tok("INT_LITERAL", "2")>>
\* int main () { return f (1, 2, ...); }
CallTokens(n) ==
    <<tok("INT_TYPE", "int"), tok("IDENTIFIER", "main"), tok("L_PAREN", ""),
      tok("R_PAREN", ""), tok("L_BRACE", ""), tok("RETURN", "return"),
      tok("IDENTIFIER", "f"), tok("L_PAREN", "")>>
    \o ArgList(n)
    \o <<tok("R_PAREN", ""), tok("SEMICOLON", ""), tok("R_BRACE", ""),
         tok("END_OF_FILE", "")>>
CallVectors == {CallTokens(n) : n \in 1..MaxListed}
OneArgSource == ReturnSource("f (1 + 2)")

ParseSources ==
    ChainSources \cup ExampleSources \cup NameSources \cup LiteralSources
    \cup PrefixSources \cup OddSources \cup {OneParamSource, OneArgSource}
ParseVectors == ParamVectors \cup CallVectors

InitFront == InitParse(ParseSources, ParseVectors)
SpecParse == InitFront /\ [][NextParse]_vars

(***************************************************************************)
(* Claims about the parser.                                                *)
(***************************************************************************)
\* the value of the return statement that opens the first function's body
ReturnedTree == program.functions[1].body.statements[1].value
\* the tokens of E in   int main ( ) { return E ; }
ExprTokens == SubSeq(tokens, 7, Len(tokens) - 3)

ParamsNamed(n) ==
    /\ parsed.thrown = ""
    /\ Len(program.functions) = 1
    /\ program.functions[1].name = "f"
    /\ program.functions[1].params = [i \in 1..n |-> Param(ParamNames[i])]

\* C5: a function definition whose parameter list is int p1, ..., int pn
\* (n >= 1) parses to a Function whose params are p1..pn in source order.
C5_ParamsInOrder ==
    parsed.done =>
        /\ \A n \in 1..MaxListed : tokens = ParamTokens(n) => ParamsNamed(n)
        /\ source = OneParamSource => ParamsNamed(1)

CallArgs(n) == [i \in 1..n |-> IF i = 1 THEN IntLiteral(1) ELSE IntLiteral(2)]

\* C6: in expression position  f ( e1, ..., en )  parses to a FuncCall node
\* carrying the name f and the argument expressions in source order.
C6_CallParses ==
    parsed.done =>
        /\ \A n \in 1..MaxListed :
                tokens = CallTokens(n) =>
                    parsed.thrown = "" /\ ReturnedTree = FuncCall("f", CallArgs(n))
        /\ source = OneArgSource =>
                /\ parsed.thrown = ""
                /\ ReturnedTree
                     = FuncCall("f", <<BinaryOp("ADD", IntLiteral(1), IntLiteral(2))>>)

\* the precedence level of a binary operator, loosest first
Level(op) ==
    CASE op = "OR" -> 1
      [] op = "AND" -> 2
      [] op \in {"EQ", "NE", "LT", "GT"} -> 3
      [] op \in {"ADD", "SUB"} -> 4
      [] op \in {"MUL", "DIV"} -> 5
OpOfText(t) ==
    CASE t = "||" -> "OR" [] t = "&&" -> "AND" [] t = "==" -> "EQ" [] t = "!=" -> "NE"
      [] t = "<" -> "LT" [] t = ">" -> "GT" [] t = "+" -> "ADD" [] t = "-" -> "SUB"
      [] t = "*" -> "MUL" [] t = "/" -> "DIV"
TokenOfOp(op) ==
    CASE op = "OR" -> "OR_CMP" [] op = "AND" -> "AND_CMP" [] op = "EQ" -> "EQ_CMP"
      [] op = "NE" -> "NE_CMP" [] op = "LT" -> "LT_CMP" [] op = "GT" -> "GT_CMP"
      [] op = "ADD" -> "ADD_OP" [] op = "SUB" -> "SUB_OP" [] op = "MUL" -> "MULT_OP"
      [] op = "DIV" -> "DIV_OP" [] op = "NEGATE" -> "SUB_OP" [] op = "NOT" -> "NOT_OP"

RECURSIVE Shaped(_)
\* in a tree built without parentheses a left operand binds at least as
\* tightly as its parent, a right operand strictly tighter, and a unary
\* operator applies to a unary or primary expression
Shaped(e) ==
    CASE e.kind = "BinaryOp" ->
            /\ Shaped(e.left) /\ Shaped(e.right)
            /\ e.left.kind = "BinaryOp" => Level(e.left.op) >= Level(e.op)
            /\ e.right.kind = "BinaryOp" => Level(e.right.op) > Level(e.op)
      [] e.kind = "UnaryOp" -> e.operand.kind # "BinaryOp" /\ Shaped(e.operand)
      [] OTHER -> TRUE

RECURSIVE InOrder(_)
\* the token types of a tree read left to right
InOrder(e) ==
    CASE e.kind = "BinaryOp" ->
            InOrder(e.left) \o <<TokenOfOp(e.op)>> \o InOrder(e.right)
      [] e.kind = "UnaryOp" -> <<TokenOfOp(e.op)>> \o InOrder(e.operand)
      [] e.kind = "IntLiteral" -> <<"INT_LITERAL">>
      [] e.kind = "Identifier" -> <<"IDENTIFIER">>

RECURSIVE LeafNames(_)
LeafNames(e) ==
    CASE e.kind = "BinaryOp" -> LeafNames(e.left) \o LeafNames(e.right)
      [] e.kind = "UnaryOp" -> LeafNames(e.operand)
      [] e.kind = "IntLiteral" -> <<>>
      [] e.kind = "Identifier" -> <<e.name>>

RECURSIVE LeafValues(_)
LeafValues(e) ==
    CASE e.kind = "BinaryOp" -> LeafValues(e.left) \o LeafValues(e.right)
      [] e.kind = "UnaryOp" -> LeafValues(e.operand)
      [] e.kind = "IntLiteral" -> <<e.value>>
      [] e.kind = "Identifier" -> <<>>

IsIdentifier(t) == t.type = "IDENTIFIER"
IsLiteral(t) == t.type = "INT_LITERAL"
LiteralValue(lexeme) ==
    CASE lexeme = "2" -> 2 [] lexeme = "4" -> 4 [] lexeme = "6" -> 6

\* the tree reads back as the tokens it was parsed from
ReadsBack(e, toks) ==
    /\ InOrder(e) = [i \in 1..Len(toks) |-> toks[i].type]
    /\ LeafNames(e)
         = [i \in 1..Len(SelectSeq(toks, IsIdentifier)) |->
                SelectSeq(toks, IsIdentifier)[i].lexeme]
    /\ LeafValues(e)
         = [i \in 1..Len(SelectSeq(toks, IsLiteral)) |->
                LiteralValue(SelectSeq(toks, IsLiteral)[i].lexeme)]

\* a o1 2 o2 c  groups to the left unless o2 binds tighter than o1
TwoOpTree(o1, o2) ==
    IF Level(OpOfText(o1)) >= Level(OpOfText(o2))
        THEN BinaryOp(OpOfText(o2),
                      BinaryOp(OpOfText(o1), Identifier("a"), IntLiteral(2)),
                      Identifier("c"))
    ELSE BinaryOp(OpOfText(o1), Identifier("a"),
                  BinaryOp(OpOfText(o2), IntLiteral(2), Identifier("c")))
TwoOpSource(o1, o2) == ReturnSource("a " \o o1 \o " 2 " \o o2 \o " c")
TwoOpTable == [o1 \in OpTexts |-> [o2 \in OpTexts |-> TwoOpSource(o1, o2)]]

\* C7: expression trees follow the precedence order
\* || < && < (== != < >) < (+ -) < (* /) < unary, binary levels associate to
\* the left and unary operators to the right.
C7_Precedence ==
    parsed.done =>
        /\ source \in ChainSources =>
                /\ parsed.thrown = ""
                /\ Shaped(ReturnedTree)
                /\ ReadsBack(ReturnedTree, ExprTokens)
        /\ \A o1, o2 \in OpTexts :
                source = TwoOpTable[o1][o2] => ReturnedTree = TwoOpTree(o1, o2)
        /\ \A i \in DOMAIN Examples :
                source = ReturnSource(Examples[i][1]) =>
                    parsed.thrown = "" /\ ReturnedTree = Examples[i][2]

C7_Witness ==
    /\ phase = "parsed"
    /\ source = ReturnSource("a && b || c")
    /\ ReturnedTree = BinaryOp("OR", BinaryOp("AND", Identifier("a"), Identifier("b")),
                               Identifier("c"))

LengthMessages == {"identifier exceeds maximum length",
                   "function name exceeds maximum length"}
\* the token a ParseError is about: the name for a length error, else the
\* token the parser stopped at
Offending ==
    IF parsed.msg \in LengthMessages THEN tokens[parsed.cur]
    ELSE tokens[parsed.cur + 1]

\* C8: parse returns a Program or fails with a ParseError located at the
\* offending token, and in no other way, whatever the tokens are.
C8_OnlyParseError ==
    parsed.done =>
        /\ parsed.thrown \in {"", "ParseError"}
        /\ parsed.thrown = "ParseError" => parsed.loc = Offending.start

DeclaredName(kind) ==
    CASE kind \in {"decl", "init"} -> program.functions[1].body.statements[1].name
      [] kind = "func" -> program.functions[1].name
      [] kind = "second" -> program.functions[2].name

\* C9: a declared variable or function name of exactly 32 bytes parses, a
\* name of 33 bytes or more raises a ParseError located at that identifier.
C9_NameLength ==
    parsed.done =>
        \A k \in NameKinds, n \in 1..MaxNameLen :
            source = NameTable[k][n] =>
                IF n <= 32
                    THEN /\ parsed.thrown = ""
                         /\ Len(DeclaredName(k)) = n
                         /\ DeclaredName(k) = Rep("n", n)
                ELSE /\ parsed.thrown = "ParseError"
                     /\ parsed.msg \in LengthMessages
                     /\ parsed.loc = NameStart(k)

C9_Witness ==
    /\ phase = "parse failed"
    /\ source = NameTable["decl"][33]
    /\ parsed.thrown = "ParseError"
    /\ parsed.loc = NameStart("decl")

(***************************************************************************)
(* The optimizing pass (main.cpp with -O, parse_and_optimize in the        *)
(* optimizer tests): optimize runs on the parsed Program, in place.        *)
(***************************************************************************)
\* Optimizer optimizer; optimizer.optimize (program);
Optimize ==
    /\ phase = "parsed"
    /\ \E ub \in UBOutcomes :
        LET left(r) ==
                /\ program' = IF r.trapped THEN program ELSE r.program
                /\ phase' = IF r.trapped THEN "optimizer trapped" ELSE "optimized"
        IN  left(optimize(program, ub))
    /\ UNCHANGED <<source, tokens, parsed, cg, m, proc>>

NextOpt == Lex \/ Parse \/ Optimize

InitOpt(sources, programs) ==
    /\ \/ /\ phase = "source" /\ source \in sources /\ program = NoProgram
       \/ /\ phase = "parsed" /\ source = "" /\ program \in programs
    /\ tokens = NoTokens
    /\ parsed = NoParse
    /\ cg = NewCodegen
    /\ m = IdleMachine
    /\ proc = NoOutput

MaxWrap == 1    \* operators wrapped around a one-operator expression

FoldLeaves == {IntLiteral(0), IntLiteral(1), IntLiteral(-1), IntLiteral(INT_MAX),
               IntLiteral(INT_MIN), Identifier("x")}
OneOp ==
    FoldLeaves
    \cup {UnaryOp(o, a) : o \in UnaryOps, a \in FoldLeaves}
    \cup {BinaryOp(o, a, b) : o \in BinaryOps, a \in FoldLeaves, b \in FoldLeaves}

RECURSIVE Wrapped(_)
Wrapped(k) ==
    IF k = 0 THEN OneOp
    ELSE LET in == Wrapped(k - 1)
         IN  in \cup {UnaryOp("NEGATE", e) : e \in in}
                \cup {UnaryOp("NOT", e) : e \in in}
                \cup {BinaryOp("SUB", e, IntLiteral(1)) : e \in in}
                \cup {BinaryOp("DIV", IntLiteral(7), e) : e \in in}
                \cup {BinaryOp("ADD", e, Identifier("x")) : e \in in}
FoldExprs == Wrapped(MaxWrap)

\* e in every position an expression can take
Positions(e) ==
    Main(<<VarDecl("x", <<e>>),
           VarDecl("y", <<>>),
           Assignment("y", e),
           IfStmt(e, Block(<<ExprStmt(e)>>)),
           IfStmt(Identifier("x"), Block(<<ReturnStmt(e)>>)),
           WhileStmt(e, Block(<<Assignment("x", e)>>)),
           Block(<<ExprStmt(e)>>),
           ReturnStmt(FuncCall("f", <<e, BinaryOp("MUL", Identifier("y"), e)>>))>>)
FoldPrograms == {Positions(e) : e \in FoldExprs}

\* conditions: literal, folding to a literal, and not folding
BranchConds ==
    {Lit(0), Lit(5), Lt(Lit(1), Lit(2)), Sub(Lit(3), Lit(3)), Id("x"),
     BinaryOp("DIV", Lit(1), Lit(0)), Add(Id("x"), Lit(1))}

\* y = n: a statement that tells its position
Mark(n) == Assignment("y", Lit(n))

\* ifs under conditions c and d: at the top, inside an if, inside a while,
\* inside a block, next to each other, and around every kind of statement
Branches(c, d) ==
    Main(<<VarDecl("x", <<Lit(1)>>),
           VarDecl("y", <<>>),
           IfStmt(c, Block(<<Mark(1),
                             IfStmt(d, Block(<<Mark(2), ExprStmt(Id("y"))>>)),
                             Mark(3)>>)),
           IfStmt(d, Block(<<>>)),
           Mark(4),
           WhileStmt(d, Block(<<IfStmt(c, Block(<<Mark(5)>>)), Mark(6)>>)),
           Block(<<IfStmt(d, Block(<<IfStmt(c, Block(<<Mark(7)>>))>>))>>),
           IfStmt(Id("x"), Block(<<IfStmt(c, Block(<<ReturnStmt(Id("y"))>>))>>)),
           ReturnStmt(Id("x"))>>)
BranchPrograms == {Branches(c, d) : c \in BranchConds, d \in BranchConds}

FoldSources ==
    {ReturnSource("1 + 2 * 3"), ReturnSource("-7 / 2"), ReturnSource("7 / 0"),
     ReturnSource("2147483647 + 1"), ReturnSource("-(0 - 2147483647 - 1)"),
     ReturnSource("(0 - 2147483647 - 1) / (0 - 1)"),
     ReturnSource("(1 < 2) + (2 > 1) + (3 == 3) + (3 != 3) + (0 || 5) + (4 && 0)"),
     "int main () { int x = (4 - 1) * 2; while (x > 1 - 1) { x = x - (2 == 2); }"
        \o " if (1 < 2) { return !0 + x; } if (x / (3 - 3)) { -7 / 2; } return 9; }"}

InitFold == InitOpt(FoldSources, FoldPrograms \cup BranchPrograms)
SpecOpt == InitFold /\ [][NextOpt]_vars

(***************************************************************************)
(* Claims about the optimizer.                                             *)
(***************************************************************************)
RECURSIVE ClosedValue(_)
\* the value of an expression of integer literals and operators, reduced
\* to 32 bits; none when it has another leaf or divides by zero
ClosedValue(e) ==
    CASE e.kind = "IntLiteral" -> Val(e.value)
      [] e.kind = "UnaryOp" ->
            LET o == ClosedValue(e.operand)
            IN  IF ~o.ok THEN NoVal
                ELSE IF e.op = "NEGATE" THEN Val(Neg32(o.v))
                ELSE Val(Bool01(o.v = 0))
      [] e.kind = "BinaryOp" ->
            LET l == ClosedValue(e.left)
                r == ClosedValue(e.right)
            IN  IF ~l.ok \/ ~r.ok THEN NoVal
                ELSE IF e.op = "DIV" /\ l.v = INT_MIN /\ r.v = -1 THEN Val(INT_MIN)
                ELSE RefBinary(e.op, l.v, r.v)
      [] OTHER -> NoVal

RECURSIVE ExprKept(_, _)
\* out is e with every closed subexpression that has a value replaced by
\* the literal of that value
ExprKept(e, out) ==
    IF ClosedValue(e).ok THEN out = IntLiteral(ClosedValue(e).v)
    ELSE /\ out.kind = e.kind
         /\ CASE e.kind = "UnaryOp" ->
                    out.op = e.op /\ ExprKept(e.operand, out.operand)
              [] e.kind = "BinaryOp" ->
                    /\ out.op = e.op
                    /\ ExprKept(e.left, out.left)
                    /\ ExprKept(e.right, out.right)
              [] e.kind = "FuncCall" ->
                    /\ out.name = e.name
                    /\ Len(out.args) = Len(e.args)
                    /\ \A i \in 1..Len(e.args) : ExprKept(e.args[i], out.args[i])
              [] OTHER -> out = e

\* an if whose condition is a constant leaves its body (true) or nothing
ConstantIf(s) == s.kind = "IfStmt" /\ ClosedValue(s.condition).ok
Remaining(s) == IF ConstantIf(s) /\ ClosedValue(s.condition).v = 0 THEN 0 ELSE 1

RECURSIVE StmtsKept(_, _)
RECURSIVE StmtKept(_, _)
StmtsKept(ss, outs) ==
    IF ss = <<>> THEN outs = <<>>
    ELSE /\ Len(outs) >= Remaining(Head(ss))
         /\ Remaining(Head(ss)) = 1 => StmtKept(Head(ss), Head(outs))
         /\ StmtsKept(Tail(ss), SubSeq(outs, Remaining(Head(ss)) + 1, Len(outs)))

StmtKept(s, out) ==
    IF ConstantIf(s)
        THEN out.kind = "Block" /\ StmtsKept(s.then_block.statements, out.statements)
    ELSE /\ out.kind = s.kind
         /\ CASE s.kind = "VarDecl" ->
                    /\ out.name = s.name
                    /\ Len(out.init) = Len(s.init)
                    /\ s.init # <<>> => ExprKept(s.init[1], out.init[1])
              [] s.kind = "Assignment" ->
                    out.name = s.name /\ ExprKept(s.value, out.value)
              [] s.kind = "ReturnStmt" -> ExprKept(s.value, out.value)
              [] s.kind = "ExprStmt" -> ExprKept(s.expression, out.expression)
              [] s.kind = "IfStmt" ->
                    /\ ExprKept(s.condition, out.condition)
                    /\ StmtsKept(s.then_block.statements, out.then_block.statements)
              [] s.kind = "WhileStmt" ->
                    /\ ExprKept(s.condition, out.condition)
                    /\ StmtsKept(s.body.statements, out.body.statements)
              [] s.kind = "Block" -> StmtsKept(s.statements, out.statements)

ProgramKept(prog, out) ==
    /\ Len(out.functions) = Len(prog.functions)
    /\ \A i \in 1..Len(prog.functions) :
            /\ out.functions[i].name = prog.functions[i].name
            /\ StmtsKept(prog.functions[i].body.statements,
                         out.functions[i].body.statements)

RECURSIVE ExprClean(_)
\* no subexpression with a closed value other than a literal
ExprClean(e) ==
    /\ ClosedValue(e).ok => e.kind = "IntLiteral"
    /\ CASE e.kind = "UnaryOp" -> ExprClean(e.operand)
         [] e.kind = "BinaryOp" -> ExprClean(e.left) /\ ExprClean(e.right)
         [] e.kind = "FuncCall" -> \A i \in 1..Len(e.args) : ExprClean(e.args[i])
         [] OTHER -> TRUE

RECURSIVE StmtClean(_)
StmtClean(s) ==
    CASE s.kind = "VarDecl" -> s.init # <<>> => ExprClean(s.init[1])
      [] s.kind = "Assignment" -> ExprClean(s.value)
      [] s.kind = "ReturnStmt" -> ExprClean(s.value)
      [] s.kind = "ExprStmt" -> ExprClean(s.expression)
      [] s.kind = "IfStmt" ->
            /\ ExprClean(s.condition)
            /\ \A i \in 1..Len(s.then_block.statements) :
                    StmtClean(s.then_block.statements[i])
      [] s.kind = "WhileStmt" ->
            /\ ExprClean(s.condition)
            /\ \A i \in 1..Len(s.body.statements) : StmtClean(s.body.statements[i])
      [] s.kind = "Block" ->
            \A i \in 1..Len(s.statements) : StmtClean(s.statements[i])

ProgramClean(prog) ==
    \A i \in 1..Len(prog.functions) :
        \A j \in 1..Len(prog.functions[i].body.statements) :
            StmtClean(prog.functions[i].body.statements[j])

\* C10: after optimize every expression subtree whose leaves are all
\* integer literals and which divides by no zero divisor is a single
\* IntLiteral holding the subtree's value (comparisons and logical operators
\* 0 or 1, Not 0 -> 1 and nonzero -> 0, Negate arithmetic negation).
C10_ClosedSubtreesFolded ==
    [][(phase = "parsed" /\ phase' = "optimized") =>
            ProgramKept(program, program') /\ ProgramClean(program')]_vars

C10_Witness ==
    /\ phase = "optimized"
    /\ source = ReturnSource("1 + 2 * 3")
    /\ program = Main(<<ReturnStmt(IntLiteral(7))>>)

(***************************************************************************)
(* Dead branches.                                                          *)
(***************************************************************************)
RECURSIVE NoLiteralIf(_)
\* no if with an integer literal as condition, at any depth of ss
NoLiteralIf(ss) ==
    \A i \in 1..Len(ss) :
        CASE ss[i].kind = "IfStmt" ->
                /\ ss[i].condition.kind # "IntLiteral"
                /\ NoLiteralIf(ss[i].then_block.statements)
          [] ss[i].kind = "WhileStmt" -> NoLiteralIf(ss[i].body.statements)
          [] ss[i].kind = "Block" -> NoLiteralIf(ss[i].statements)
          [] OTHER -> TRUE

RECURSIVE IfsPlaced(_, _)
\* outs is ss where every if with a constant condition, at any depth, has
\* given its place to one Block of its body (nonzero) or to nothing (zero)
IfsPlaced(ss, outs) ==
    IF ss = <<>> THEN outs = <<>>
    ELSE LET s == Head(ss)
         IN  IF ConstantIf(s) /\ ClosedValue(s.condition).v = 0
                 THEN IfsPlaced(Tail(ss), outs)
             ELSE /\ outs # <<>>
                  /\ IfsPlaced(Tail(ss), Tail(outs))
                  /\ IF ConstantIf(s)
                         THEN /\ Head(outs).kind = "Block"
                              /\ IfsPlaced(s.then_block.statements,
                                           Head(outs).statements)
                     ELSE /\ Head(outs).kind = s.kind
                          /\ CASE s.kind = "IfStmt" ->
                                    IfsPlaced(s.then_block.statements,
                                              Head(outs).then_block.statements)
                               [] s.kind = "WhileStmt" ->
                                    IfsPlaced(s.body.statements,
                                              Head(outs).body.statements)
                               [] s.kind = "Block" ->
                                    IfsPlaced(s.statements, Head(outs).statements)
                               [] OTHER -> StmtKept(s, Head(outs))

\* C11: after optimize no IfStmt whose folded condition is an integer
\* literal remains at any nesting depth: where the constant is nonzero one
\* Block holding the then-block's statements in their order stands at the
\* if's position, and where it is 0 the if is gone and its neighbours are
\* adjacent.
C11_ConstantIfsResolved ==
    [][(phase = "parsed" /\ phase' = "optimized") =>
            \A i \in 1..Len(program.functions) :
                /\ NoLiteralIf(program'.functions[i].body.statements)
                /\ IfsPlaced(program.functions[i].body.statements,
                             program'.functions[i].body.statements)]_vars

\* Branches(5, 3 - 3) optimized: the ifs under 5 are Blocks, those under
\* 3 - 3 are gone
C11_Witness ==
    /\ phase = "optimized"
    /\ program =
         Main(<<VarDecl("x", <<Lit(1)>>),
                VarDecl("y", <<>>),
                Block(<<Mark(1), Mark(3)>>),
                Mark(4),
                WhileStmt(Lit(0), Block(<<Block(<<Mark(5)>>), Mark(6)>>)),
                Block(<<>>),
                IfStmt(Id("x"), Block(<<Block(<<ReturnStmt(Id("y"))>>)>>)),
                ReturnStmt(Id("x"))>>)

\* the statements of ss before position i that optimize leaves nothing of
Dropped(ss, i) == Cardinality({j \in 1..(i - 1) : Remaining(ss[j]) = 0})

RECURSIVE OthersStay(_, _)
\* every statement of ss that is no if with a constant condition is found
\* in outs, with its kind and name, moved up by the statements dropped
\* before it, and so are the statements nested in it; outs has no more
\* statements than ss has left
OthersStay(ss, outs) ==
    /\ Len(outs) = Len(ss) - Dropped(ss, Len(ss) + 1)
    /\ \A i \in 1..Len(ss) :
            ~ConstantIf(ss[i]) =>
                LET s == ss[i]
                    out == outs[i - Dropped(ss, i)]
                IN  /\ out.kind = s.kind
                    /\ CASE s.kind = "VarDecl" ->
                                out.name = s.name /\ Len(out.init) = Len(s.init)
                          [] s.kind = "Assignment" -> out.name = s.name
                          [] s.kind = "IfStmt" ->
                                OthersStay(s.then_block.statements,
                                           out.then_block.statements)
                          [] s.kind = "WhileStmt" ->
                                OthersStay(s.body.statements, out.body.statements)
                          [] s.kind = "Block" ->
                                OthersStay(s.statements, out.statements)
                          [] OTHER -> TRUE

\* C12: optimize removes or replaces a statement only if it is an IfStmt
\* whose condition folds to a constant; every other statement keeps its
\* kind and its relative order. A while whose condition folds to 0 stays a
\* WhileStmt with its body, and an if whose condition is no constant stays
\* an IfStmt.
C12_OnlyConstantIfsGo ==
    [][(phase = "parsed" /\ phase' = "optimized") =>
            /\ Len(program'.functions) = Len(program.functions)
            /\ \A i \in 1..Len(program.functions) :
                    OthersStay(program.functions[i].body.statements,
                               program'.functions[i].body.statements)]_vars

\* Branches(x, 3 - 3) optimized: the while under 3 - 3 is a while under 0
\* with its body, the ifs under x are ifs
C12_Witness ==
    /\ phase = "optimized"
    /\ program =
         Main(<<VarDecl("x", <<Lit(1)>>),
                VarDecl("y", <<>>),
                IfStmt(Id("x"), Block(<<Mark(1), Mark(3)>>)),
                Mark(4),
                WhileStmt(Lit(0), Block(<<IfStmt(Id("x"), Block(<<Mark(5)>>)),
                                          Mark(6)>>)),
                Block(<<>>),
                IfStmt(Id("x"),
                       Block(<<IfStmt(Id("x"), Block(<<ReturnStmt(Id("y"))>>))>>)),
                ReturnStmt(Id("x"))>>)

(***************************************************************************)
(* Division by zero.                                                       *)
(***************************************************************************)
\* a division whose divisor is the literal 0 or folds to 0
ZeroDivision(e) ==
    /\ e.kind = "BinaryOp"
    /\ e.op = "DIV"
    /\ ClosedValue(e.right).ok
    /\ ClosedValue(e.right).v = 0

RECURSIVE HasZeroDivision(_)
HasZeroDivision(e) ==
    \/ ZeroDivision(e)
    \/ CASE e.kind = "UnaryOp" -> HasZeroDivision(e.operand)
         [] e.kind = "BinaryOp" ->
                HasZeroDivision(e.left) \/ HasZeroDivision(e.right)
         [] e.kind = "FuncCall" ->
                \E i \in 1..Len(e.args) : HasZeroDivision(e.args[i])
         [] OTHER -> FALSE

RECURSIVE DivisionStays(_, _)
\* out, standing where e stood, is no literal wherever e holds a division
\* by zero, and that division is in out as a Div BinaryOp over the literal 0
DivisionStays(e, out) ==
    HasZeroDivision(e) =>
        /\ out.kind = e.kind
        /\ ZeroDivision(e) => out.op = "DIV" /\ out.right = IntLiteral(0)
        /\ CASE e.kind = "UnaryOp" ->
                    out.op = e.op /\ DivisionStays(e.operand, out.operand)
             [] e.kind = "BinaryOp" ->
                    /\ out.op = e.op
                    /\ DivisionStays(e.left, out.left)
                    /\ DivisionStays(e.right, out.right)
             [] e.kind = "FuncCall" ->
                    /\ Len(out.args) = Len(e.args)
                    /\ \A i \in 1..Len(e.args) :
                            DivisionStays(e.args[i], out.args[i])

RECURSIVE DivisionsStay(_, _)
\* DivisionStays for every expression of the statements ss that optimize
\* leaves in outs
DivisionsStay(ss, outs) ==
    \A i \in 1..Len(ss) :
        Remaining(ss[i]) = 1 =>
            LET s == ss[i]
                out == outs[i - Dropped(ss, i)]
            IN  CASE ConstantIf(s) ->
                        DivisionsStay(s.then_block.statements, out.statements)
                  [] s.kind = "VarDecl" ->
                        s.init # <<>> => DivisionStays(s.init[1], out.init[1])
                  [] s.kind = "Assignment" -> DivisionStays(s.value, out.value)
                  [] s.kind = "ReturnStmt" -> DivisionStays(s.value, out.value)
                  [] s.kind = "ExprStmt" ->
                        DivisionStays(s.expression, out.expression)
                  [] s.kind = "IfStmt" ->
                        /\ DivisionStays(s.condition, out.condition)
                        /\ DivisionsStay(s.then_block.statements,
                                         out.then_block.statements)
                  [] s.kind = "WhileStmt" ->
                        /\ DivisionStays(s.condition, out.condition)
                        /\ DivisionsStay(s.body.statements, out.body.statements)
                  [] s.kind = "Block" ->
                        DivisionsStay(s.statements, out.statements)

\* C13: a division whose divisor is the literal 0, or folds to 0, is never
\* folded: the Div node remains a BinaryOp after optimize, and no
\* expression containing it is replaced by a literal.
C13_ZeroDivisionKept ==
    [][(phase = "parsed" /\ phase' = "optimized") =>
            \A i \in 1..Len(program.functions) :
                DivisionsStay(program.functions[i].body.statements,
                              program'.functions[i].body.statements)]_vars

\* Positions(1 / 0 - 1) optimized: the division and the subtraction over
\* it stand as they were
C13_Witness ==
    /\ phase = "optimized"
    /\ source = ""
    /\ program.functions[1].body.statements[1]
            = VarDecl("x", <<Sub(BinaryOp("DIV", Lit(1), Lit(0)), Lit(1))>>)
    /\ program.functions[1].body.statements[4].kind = "IfStmt"

(***************************************************************************)
(* Folding against running: `return e` for closed e is compiled as it is   *)
(* and after the optimizing pass (main.cpp without and with -O), and run.  *)
(***************************************************************************)
NextRun == Lex \/ Parse \/ Optimize \/ Construct \/ Start \/ Step

ClosedLeaves == {Lit(0), Lit(1), Lit(-1), Lit(7), Lit(INT_MAX), Lit(INT_MIN)}
ClosedFlat ==
    ClosedLeaves
    \cup {UnaryOp(o, a) : o \in UnaryOps, a \in ClosedLeaves}
    \cup {BinaryOp(o, a, b) : o \in BinaryOps, a \in ClosedLeaves, b \in ClosedLeaves}
\* one more operator around, on either side
ClosedExprs ==
    ClosedFlat
    \cup {UnaryOp(o, e) : o \in UnaryOps, e \in ClosedFlat}
    \cup {BinaryOp(o, e, Lit(2)) : o \in {"ADD", "MUL", "DIV", "LT", "AND"},
                                   e \in ClosedFlat}
    \cup {BinaryOp(o, Lit(7), e) : o \in {"SUB", "DIV", "EQ", "OR"},
                                   e \in ClosedFlat}
ClosedPrograms ==
    {Main(<<ReturnStmt(e)>>) : e \in {c \in ClosedExprs : ~HasZeroDivision(c)}}
ClosedSources ==
    {ReturnSource("1 + 2 * 3"), ReturnSource("-7 / 2"),
     ReturnSource("2147483647 + 1"), ReturnSource("-(0 - 2147483647 - 1)"),
     ReturnSource("(0 - 2147483647 - 1) / (0 - 1)"),
     ReturnSource("65536 * 65536 + !0"),
     ReturnSource("(1 < 2) + (2 > 1) + (3 == 3) + (3 != 3) + (0 || 5) + (4 && 0)")}

InitRun == InitOpt(ClosedSources, ClosedPrograms)
SpecRun == InitRun /\ [][NextRun]_vars

Returned == program.functions[1].body.statements[1].value

\* C14: for every closed expression e without a zero divisor the optimizer
\* folds e to a value, and it is the value the code generated for the
\* unfolded e computes at run time, so `return e` ends with the same value
\* with and without the optimizer.
C14_FoldIsRunValue ==
    /\ phase # "optimizer trapped"
    /\ (phase = "running" /\ m.status # "running") =>
            /\ m.status = "exited"
            /\ \A ub \in UBOutcomes :
                    fold_expr(Returned, ub)
                        = Folded(IntLiteral(m.result), m.result)

(***************************************************************************)
(* A second optimizing pass over the optimized Program.                    *)
(***************************************************************************)
\* optimizer.optimize (program); once more
OptimizeAgain ==
    /\ phase = "optimized"
    /\ \E ub \in UBOutcomes :
        LET left(r) ==
                /\ program' = IF r.trapped THEN program ELSE r.program
                /\ phase' = IF r.trapped THEN "optimizer trapped"
                            ELSE "optimized twice"
        IN  left(optimize(program, ub))
    /\ UNCHANGED <<source, tokens, parsed, cg, m, proc>>

NextTwice == Lex \/ Parse \/ Optimize \/ OptimizeAgain
SpecTwice == InitFold /\ [][NextTwice]_vars

\* C15: optimize is idempotent: optimize(optimize(P)) is structurally
\* equal to optimize(P).
C15_Idempotent ==
    [][phase = "optimized" =>
            phase' = "optimized twice" /\ program' = program]_vars

\* Branches(5, 1 < 2) optimized twice
C15_Witness ==
    /\ phase = "optimized twice"
    /\ program =
         Main(<<VarDecl("x", <<Lit(1)>>),
                VarDecl("y", <<>>),
                Block(<<Mark(1), Block(<<Mark(2), ExprStmt(Id("y"))>>), Mark(3)>>),
                Block(<<>>),
                Mark(4),
                WhileStmt(Lit(1), Block(<<Block(<<Mark(5)>>), Mark(6)>>)),
                Block(<<Block(<<Block(<<Mark(7)>>)>>)>>),
                IfStmt(Id("x"), Block(<<Block(<<ReturnStmt(Id("y"))>>)>>)),
                ReturnStmt(Id("x"))>>)

(***************************************************************************)
(* Folds that leave the int range.                                         *)
(***************************************************************************)
\* +, - or * over two literals whose exact result is no 32-bit int
Overflowing(e) ==
    /\ e.kind = "BinaryOp"
    /\ e.op \in {"ADD", "SUB", "MUL"}
    /\ e.left.kind = "IntLiteral"
    /\ e.right.kind = "IntLiteral"
    /\ CASE e.op = "ADD" -> ~AddFits(e.left.value, e.right.value)
         [] e.op = "SUB" -> ~SubFits(e.left.value, e.right.value)
         [] e.op = "MUL" -> ~MulFits(e.left.value, e.right.value)

\* the exact result reduced modulo 2^32 to a 32-bit int
WrappedValue(e) ==
    CASE e.op = "ADD" -> Add32(e.left.value, e.right.value)
      [] e.op = "SUB" -> Sub32(e.left.value, e.right.value)
      [] e.op = "MUL" -> Mul32(e.left.value, e.right.value)

FirstInit(prog) == prog.functions[1].body.statements[1].init[1]

\* C16: folding +, - or * on two 32-bit literals whose exact result is
\* outside [-2^31, 2^31 - 1] produces the IntLiteral of that result reduced
\* modulo 2^32, as the machine instruction does.
C16_FoldWraps ==
    [][/\ (phase = "parsed" /\ source = "" /\ Overflowing(FirstInit(program))) =>
            /\ phase' = "optimized"
            /\ FirstInit(program') = IntLiteral(WrappedValue(FirstInit(program)))
       /\ (phase = "parsed" /\ source = ReturnSource("2147483647 + 1")) =>
            /\ phase' = "optimized"
            /\ program' = Main(<<ReturnStmt(IntLiteral(INT_MIN))>>)]_vars

(***************************************************************************)
(* The lexer on arbitrary input: every string of at most MaxBytes bytes    *)
(* over spaces, a digit, a letter, the underscore, bytes that begin one-   *)
(* and two-character operators, and bytes the lexer has no token for.  A   *)
(* byte above 0x7f is classified by <cctype> as the C locale's tables do:  *)
(* no space, digit or letter.                                              *)
(***************************************************************************)
MaxBytes == 3

LexBytes == {" ", "\n", "7", "a", "_", "=", "!", "&", "|", "+", ";", ",", "@", "é"}

RECURSIVE BytesOf(_)
BytesOf(n) ==
    IF n = 0 THEN {""}
    ELSE LET shorter == BytesOf(n - 1)
         IN  shorter \cup {s \o b : s \in shorter, b \in LexBytes}
ByteStrings == BytesOf(MaxBytes)

\* the single-character operators and punctuation, each alone, before a
\* space, a digit, '=' and itself, and after a letter
PunctBytes == {"+", "-", "*", "/", "=", "<", ">", "!", ";", "(", ")", "{", "}", ","}
PunctSources ==
    {p \o b \o t : p \in {"", "a"}, b \in PunctBytes, t \in {"", " ", "7", "="}}
    \cup {b \o b : b \in PunctBytes}

InitLex == InitParse(ByteStrings \cup PunctSources, {})
SpecLex == InitLex /\ [][NextParse]_vars

\* C17: for every input the lexer returns, without failing, a token
\* sequence whose last token is END_OF_FILE and which holds no other
\* END_OF_FILE; the empty input and inputs of whitespace only give exactly
\* that one token.
C17_EndsWithOneEof ==
    [][phase = "source" =>
            /\ phase' = "lexed"
            /\ tokens' # <<>>
            /\ tokens'[Len(tokens')].type = "END_OF_FILE"
            /\ \A i \in 1..(Len(tokens') - 1) : tokens'[i].type # "END_OF_FILE"
            /\ (\A i \in 1..Len(source) : isspace(At(source, i))) =>
                    Len(tokens') = 1]_vars

C17_Witness ==
    /\ phase = "lexed"
    /\ source = " \n "
    /\ tokens = <<Token("END_OF_FILE", 2, 2, "")>>

\* the token kind of each single-character operator and punctuation byte
PunctKind(b) ==
    CASE b = "+" -> "ADD_OP"    [] b = "-" -> "SUB_OP"
      [] b = "*" -> "MULT_OP"   [] b = "/" -> "DIV_OP"
      [] b = "=" -> "EQ_OP"     [] b = "<" -> "LT_CMP"
      [] b = ">" -> "GT_CMP"    [] b = "!" -> "NOT_OP"
      [] b = ";" -> "SEMICOLON" [] b = "(" -> "L_PAREN"
      [] b = ")" -> "R_PAREN"   [] b = "{" -> "L_BRACE"
      [] b = "}" -> "R_BRACE"   [] b = "," -> "COMMA"

\* C18: each single byte + - * / = < > ! ; ( ) { } and , that does not
\* start a two-character operator is lexed as one token of its own kind
\* with a one-byte lexeme; none of them becomes Unknown.
C18_PunctuationKinds ==
    [][(phase = "source" /\ source \in PunctSources) =>
            LET at == IF At(source, 1) = "a" THEN 2 ELSE 1
                b == At(source, at)
                paired == /\ b \in {"=", "!"}
                          /\ at < Len(source)
                          /\ At(source, at + 1) = "="
            IN  ~paired => tokens'[at] = Token(PunctKind(b), 1, at, b)]_vars

(***************************************************************************)
(* Labels: programs of one to three functions, main first, between and     *)
(* last, whose bodies hold ifs, whiles and returns at several depths.      *)
(***************************************************************************)
LabelBodies ==
    {<<ReturnStmt(Lit(1))>>,
     <<>>,
     <<VarDecl("x", <<Lit(0)>>),
       IfStmt(Id("x"), Block(<<ReturnStmt(Lit(2))>>)),
       WhileStmt(Lt(Id("x"), Lit(2)),
                 Block(<<Assignment("x", Add(Id("x"), Lit(1))),
                         IfStmt(Lt(Lit(5), Id("x")), Block(<<ReturnStmt(Lit(3))>>))>>)),
       ReturnStmt(Id("x"))>>,
     <<IfStmt(Lit(1), Block(<<IfStmt(Lit(0), Block(<<ReturnStmt(Lit(4))>>)),
                              ReturnStmt(Lit(5))>>)),
       ReturnStmt(Lit(6))>>,
     <<WhileStmt(Lit(0), Block(<<ReturnStmt(Lit(7))>>)),
       Block(<<ReturnStmt(Lit(8)), ReturnStmt(Lit(9))>>)>>}

NameOrders == {<<"main">>, <<"f", "main">>, <<"main", "f">>,
               <<"f", "main", "g">>, <<"f", "g", "main">>}

LabelPrograms ==
    {Program([i \in 1..Len(o) |-> Function(o[i], <<>>, Block(b[i]))]) :
        o \in NameOrders, b \in [1..3 -> LabelBodies]}

InitLabels == InitGen(LabelPrograms)
SpecLabels == InitLabels /\ [][NextGen]_vars

\* the lines that define a numbered label
NumberedLabels(lines) ==
    {i \in 1..Len(lines) : lines[i].op = "label" /\ lines[i].a \in {".L", ".Lfunc_"}}

RECURSIVE IfsAndWhiles(_)
\* the if and while statements in ss, at any depth
IfsAndWhiles(ss) ==
    IF ss = <<>> THEN 0
    ELSE IfsAndWhiles(Tail(ss))
         + CASE Head(ss).kind = "IfStmt" ->
                    1 + IfsAndWhiles(Head(ss).then_block.statements)
             [] Head(ss).kind = "WhileStmt" ->
                    1 + IfsAndWhiles(Head(ss).body.statements)
             [] Head(ss).kind = "Block" -> IfsAndWhiles(Head(ss).statements)
             [] OTHER -> 0

RECURSIVE LabelUses(_, _)
\* the labels functions i.. of a program take from the counter
LabelUses(funcs, i) ==
    IF i > Len(funcs) THEN 0
    ELSE 1 + 2 * IfsAndWhiles(funcs[i].body.statements) + LabelUses(funcs, i + 1)

\* C19: in the generated assembly no numbered label is defined twice: the
\* ids of the two .L<n> labels of every if and while and of the .Lfunc_<n>
\* label of every function are pairwise distinct, drawn from one counter
\* that starts at 2, is shared by the functions, is never reset and
\* increases by one at each use.
C19_LabelsDistinct ==
    phase = "generated" =>
        LET lines == cg.assembly_lines_
            defs == NumberedLabels(lines)
        IN  /\ \A i \in defs : \A j \in defs : i # j => lines[i].n # lines[j].n
            /\ Cardinality(defs) = LabelUses(program.functions, 1)
            /\ {lines[i].n : i \in defs} = 2..(1 + Cardinality(defs))
            /\ cg.label_counter_ = 2 + Cardinality(defs)

\* f, main and g, each with an if, a while and an if inside the while
C19_Witness ==
    /\ phase = "generated"
    /\ Len(program.functions) = 3
    /\ \A i \in 1..3 : IfsAndWhiles(program.functions[i].body.statements) = 3
    /\ cg.label_counter_ = 23

\* the lines at which a function begins: its name as a label
FunctionStarts(lines) ==
    {i \in 1..Len(lines) : lines[i].op = "label" /\ lines[i].a \notin {".L", ".Lfunc_"}}

\* the lines of the function that begins at line s
FunctionLines(lines, s) ==
    {i \in s..Len(lines) : \A t \in FunctionStarts(lines) : t > s => i < t}

RECURSIVE ReturnsIn(_)
\* the return statements in ss, at any depth
ReturnsIn(ss) ==
    IF ss = <<>> THEN 0
    ELSE ReturnsIn(Tail(ss))
         + CASE Head(ss).kind = "ReturnStmt" -> 1
             [] Head(ss).kind = "IfStmt" -> ReturnsIn(Head(ss).then_block.statements)
             [] Head(ss).kind = "WhileStmt" -> ReturnsIn(Head(ss).body.statements)
             [] Head(ss).kind = "Block" -> ReturnsIn(Head(ss).statements)
             [] OTHER -> 0

\* C20: every ReturnStmt emits exactly one jmp .Lfunc_<N> whose target is
\* the epilogue label of the function that contains the return, never the
\* label of another function, and each function defines its epilogue label
\* exactly once, after its whole body.
C20_ReturnsReachOwnEpilogue ==
    phase = "generated" =>
        LET lines == cg.assembly_lines_
            starts == FunctionStarts(lines)
        IN  /\ Cardinality(starts) = Len(program.functions)
            /\ \A k \in 1..Len(program.functions) :
                \E s \in starts :
                    LET mine == FunctionLines(lines, s)
                        ends == {i \in mine : lines[i].op = "label"
                                              /\ lines[i].a = ".Lfunc_"}
                        jumps == {i \in mine : lines[i].op = "jmp"
                                               /\ lines[i].a = ".Lfunc_"}
                    IN  /\ Cardinality({t \in starts : t <= s}) = k
                        /\ lines[s].a = program.functions[k].name
                        /\ Cardinality(ends) = 1
                        /\ \A e \in ends :
                            /\ \A i \in mine : i > e =>
                                    lines[i].op \in {"lea", "pop", "ret"}
                            /\ \A i \in jumps : i < e /\ lines[i].n = lines[e].n
                            /\ \A i \in 1..Len(lines) :
                                    (i \notin mine /\ lines[i].a = ".Lfunc_") =>
                                        lines[i].n # lines[e].n
                        /\ Cardinality(jumps)
                                = ReturnsIn(program.functions[k].body.statements)

\* main, f: the returns of f, the second function, jump to .Lfunc_7
C20_Witness ==
    /\ phase = "generated"
    /\ Len(program.functions) = 2
    /\ program.functions[1].name = "main"
    /\ ReturnsIn(program.functions[1].body.statements) = 3
    /\ ReturnsIn(program.functions[2].body.statements) = 3
    /\ \E i \in 1..Len(cg.assembly_lines_) :
            cg.assembly_lines_[i] = Ins("jmp", ".Lfunc_", "", 7)

(***************************************************************************)
(* The driver (main.cpp): what main does with the outcome of the parser    *)
(* and of the code generator, and the status it returns.                   *)
(***************************************************************************)
EXIT_SUCCESS == 0
EXIT_FAILURE == 1

\* the catch blocks of main, string_to_file and the return statements; an
\* exception no catch block takes ends the process in std::terminate
Finish ==
    /\ proc.status = "running"
    /\ \/ /\ phase = "parse failed"
          /\ proc' = IF parsed.thrown = "ParseError"
                        THEN [proc EXCEPT !.stderr = Append(@, "Parse error"),
                                          !.status = "returned",
                                          !.code = EXIT_FAILURE]
                    ELSE [proc EXCEPT !.stderr = Append(@, "terminate"),
                                      !.status = "aborted"]
       \/ /\ phase = "failed"
          /\ proc' = [proc EXCEPT !.stderr = Append(@, "Codegen error"),
                                  !.status = "returned",
                                  !.code = EXIT_SUCCESS]
       \/ /\ phase = "generated"
          /\ proc' = [proc EXCEPT !.written = TRUE,
                                  !.file = cg.assembly_lines_,
                                  !.status = "returned",
                                  !.code = EXIT_SUCCESS]
    /\ UNCHANGED <<phase, source, tokens, parsed, program, cg, m>>

NextDriver == Lex \/ Parse \/ Optimize \/ Construct \/ Finish

DriverSources ==
    {"int main () { return 1 + 2; }",
     "int main () { int x = 3; if (x) { x = x - 1; } return x; }",
     "int main () { return 2147483647 + 1; }",
     "int main () { return y; }",
     "int main () { y = 1; return 0; }",
     "int f () { return 1; }",
     "",
     "int main () { return 1 }",
     "int main () { return ; }",
     "int main ( { return 1; }",
     "int main () { return 1; ",
     "int main () { int 5; }",
     "int main () { return 2147483648; }",
     "main () { return 1; }",
     "int main () { return 1; } @"}
\* every prefix of a program that compiles
DriverPrefixes ==
    LET text == "int main () { int x = 3; while (x > 1) { x = x - 1; } return x; }"
    IN  {SubSeq(text, 1, n) : n \in 0..Len(text)}

InitDriver == InitOpt(DriverSources \cup DriverPrefixes, {})
SpecDriver == InitDriver /\ [][NextDriver]_vars

\* C21: whenever compilation fails with a parse error or a codegen error,
\* the driver reports it on standard error, writes no assembly output, and
\* exits with a nonzero status.
C21_FailureReported ==
    (proc.status # "running" /\ phase \in {"parse failed", "failed"}) =>
        /\ proc.stderr # <<>>
        /\ ~proc.written
        /\ ~(proc.status = "returned" /\ proc.code = EXIT_SUCCESS)

(***************************************************************************)
(* Statements that begin with an identifier, as the first statement of     *)
(* main, after a declaration, and inside an if block.                      *)
(***************************************************************************)
\* [before, after]: the text around the statement; at: the 1-based index
\* of the statement's first token
StmtPlaces ==
    {[before |-> "int main () { ", after |-> " }", at |-> 6],
     [before |-> "int main () { int x; ", after |-> " }", at |-> 9],
     [before |-> "int main () { if (1) { ", after |-> " } }", at |-> 11]}
StmtNames == {"x", "ab"}
StmtRests ==
    {"= 5", "== 5", "+ 1", "", "!= y", "< 2", "* 3", "= y + 1", "= = 5",
     "== = 5", "=", "(1)", "- x", "/ 2", "> 0", "&& y", "|| y", "= (y == 2)",
     "=5", "= -x", "! = 5", "x = 5"}
StmtEnds == {";", ""}
StmtText(pl, n, r, e) == pl.before \o n \o " " \o r \o e \o pl.after
StmtSources ==
    {StmtText(pl, n, r, e) :
        pl \in StmtPlaces, n \in StmtNames, r \in StmtRests, e \in StmtEnds}

InitStmt == InitParse(StmtSources, {})
SpecStmt == InitStmt /\ [][NextParse]_vars

\* the statement the program holds at a place
StmtAt(prog, pl) ==
    LET ss == prog.functions[1].body.statements
    IN  IF pl.at = 6 THEN ss[1]
        ELSE IF pl.at = 9 THEN ss[2]
        ELSE ss[1].then_block.statements[1]

RECURSIVE LeftmostLeaf(_)
LeftmostLeaf(e) ==
    CASE e.kind = "BinaryOp" -> LeftmostLeaf(e.left)
      [] e.kind = "FuncCall" -> e
      [] e.kind = "UnaryOp" -> e
      [] OTHER -> e

\* C22: a statement that starts with an Identifier token is parsed as an
\* Assignment exactly when the token right after the identifier is the
\* single = (EQ_OP); in every other case it is parsed as an expression
\* statement, whose expression starts at the identifier: one token of
\* lookahead, nothing consumed before the decision.
C22_AssignmentByLookahead ==
    [][phase = "lexed" =>
        \A pl \in StmtPlaces :
            (\E n \in StmtNames, r \in StmtRests, e \in StmtEnds :
                    source = StmtText(pl, n, r, e)) =>
                LET name == tokens[pl.at]
                    ahead == tokens[pl.at + 1]
                IN  /\ name.type = "IDENTIFIER"
                    /\ phase' = "parsed" =>
                        IF ahead.type = "EQ_OP"
                            THEN /\ StmtAt(program', pl).kind = "Assignment"
                                 /\ StmtAt(program', pl).name = name.lexeme
                        ELSE /\ StmtAt(program', pl).kind = "ExprStmt"
                             /\ LeftmostLeaf(StmtAt(program', pl).expression)
                                    = Identifier(name.lexeme)
                    /\ phase' = "parse failed" =>
                        /\ parsed'.thrown = "ParseError"
                        /\ parsed'.msg # "expected ';' after "
                                \o (IF ahead.type = "EQ_OP" THEN "expression"
                                    ELSE "assignment")]_vars

\* x == 5; is an expression statement, inside the if block
C22_Witness ==
    /\ phase = "parsed"
    /\ source = "int main () { if (1) { x == 5; } }"
    /\ program.functions[1].body.statements[1].then_block.statements
            = <<ExprStmt(BinaryOp("EQ", Id("x"), Lit(5)))>>

(***************************************************************************)
(* Call programs:                                                          *)
(*   int g (int p1) { return p1 + 1; }                                     *)
(*   int h (int p1, int p2) { return p1 - p2; }                            *)
(*   int f (int p1, ..., int pn) { return pn; }                            *)
(*   int main () { int a = 5; return 100 - (90 - ... f (e1, ..., en)); }   *)
(* The call sits under 0..MaxHeld pending left operands; e1 starts with    *)
(* the literal ArgMark, which occurs nowhere else in the program.          *)
(***************************************************************************)
ArgMark == Lit(11)

CallArgLists ==
    LET plain == <<ArgMark, Lit(12), Lit(13), Lit(14), Lit(15), Lit(16)>>
        mixed == <<Sub(ArgMark, Id("a")), Id("a"),
                   FuncCall("g", <<Lit(7)>>), UnaryOp("NEGATE", Id("a")),
                   FuncCall("h", <<Id("a"), FuncCall("g", <<Lit(2)>>)>>),
                   BinaryOp("MUL", Lit(3), Id("a"))>>
       nested == <<FuncCall("g", <<FuncCall("g", <<ArgMark>>)>>),
                   FuncCall("h", <<Lit(20), Id("a")>>),
                   FuncCall("h", <<FuncCall("g", <<Id("a")>>),
                                   FuncCall("h", <<Lit(1), Lit(2)>>)>>),
                   Lit(0), Id("a"), FuncCall("g", <<Lit(9)>>)>>
    IN  {SubSeq(l, 1, n) : l \in {plain, mixed, nested}, n \in 0..MaxArgs}

CallProgram(k, args) ==
    Program(<<Function("g", <<Param("p1")>>,
                       Block(<<ReturnStmt(Add(Id("p1"), Lit(1)))>>)),
              Function("h", <<Param("p1"), Param("p2")>>,
                       Block(<<ReturnStmt(Sub(Id("p1"), Id("p2")))>>)),
              FnWithParams(Len(args)),
              MainOf(<<VarDecl("a", <<Lit(5)>>),
                       ReturnStmt(Held(k, FuncCall("f", args)))>>)>>)

CallPrograms == {CallProgram(k, args) : k \in 0..MaxHeld, args \in CallArgLists}

InitCall == InitGen(CallPrograms)
SpecCall == InitCall /\ [][NextGen]_vars

RECURSIVE CallVal(_)
\* the value of an argument expression of a call program
CallVal(e) ==
    CASE e.kind = "IntLiteral" -> e.value
      [] e.kind = "Identifier" -> ExprEnv[e.name]
      [] e.kind = "UnaryOp" ->
            IF e.op = "NEGATE" THEN Neg32(CallVal(e.operand))
            ELSE Bool01(CallVal(e.operand) = 0)
      [] e.kind = "BinaryOp" ->
            RefBinary(e.op, CallVal(e.left), CallVal(e.right)).v
      [] e.kind = "FuncCall" ->
            IF e.name = "g" THEN Add32(CallVal(e.args[1]), 1)
            ELSE IF e.name = "h"
                THEN Sub32(CallVal(e.args[1]), CallVal(e.args[2]))
            ELSE IF e.args = <<>> THEN 1
            ELSE CallVal(e.args[Len(e.args)])

RECURSIVE CallSite(_, _)
\* [held, call]: the call of main's return statement and the number of
\* pending left operands it sits under
CallSite(e, k) ==
    IF e.kind = "BinaryOp" THEN CallSite(e.right, k + 1)
    ELSE [held |-> k, call |-> e]

TheCall == CallSite(program.functions[4].body.statements[2].value, 0)

\* the line  call f  of main: the last call of the listing
CallLine(lines) ==
    CHOOSE i \in 1..Len(lines) :
        /\ lines[i].op = "call"
        /\ \A j \in (i + 1)..Len(lines) : lines[j].op # "call"

\* the first line of the code of the call: where e1 starts
FirstArgLine(lines) ==
    IF TheCall.call.args = <<>> THEN CallLine(lines)
    ELSE CHOOSE i \in 1..Len(lines) :
            lines[i].n = ArgMark.value /\ "imm" \in {lines[i].a, lines[i].b}

RECURSIVE RunTo(_, _, _, _)
\* the machine when it first comes to the line target
RunTo(mc, lines, target, fuel) ==
    IF mc.status # "running" \/ mc.pc = target \/ fuel = 0 THEN mc
    ELSE RunTo(Exec(mc, lines, lines[mc.pc]), lines, target, fuel - 1)

\* C23: for a call with n <= 6 arguments: when the pops begin the stack
\* holds the argument values in the order left to right (the last on top);
\* at the line  call  the i-th argument value is in the i-th register of
\* rdi, rsi, rdx, rcx, r8, r9, the stack is as deep as it was before the
\* first argument, and from the first argument's code to the placing of the
\* call's result the pool registers that hold pending operands keep their
\* values.
C23_ArgumentsInRegisters ==
    (phase = "running" /\ m.status = "running") =>
        LET lines == cg.assembly_lines_
            call == CallLine(lines)
            args == TheCall.call.args
            n == Len(args)
            busy == IF TheCall.held < 3 THEN TheCall.held ELSE 3
            before == RunTo(StartMachine(lines), lines, FirstArgLine(lines), 64)
        IN  /\ m.pc = call - n =>
                \A i \in 1..n :
                    /\ m.regs["rsp"] + 8 * (n - i) \in DOMAIN m.mem
                    /\ m.mem[m.regs["rsp"] + 8 * (n - i)] = CallVal(args[i])
            /\ m.pc = call =>
                /\ before.pc = FirstArgLine(lines)
                /\ \A i \in 1..n :
                    m.regs[<<"rdi", "rsi", "rdx", "rcx", "r8", "r9">>[i]]
                        = CallVal(args[i])
                /\ m.regs["rsp"] = before.regs["rsp"]
            /\ m.pc \in call..(call + 2) =>
                \A j \in 1..busy :
                    m.regs[regs_str_64[j]] = before.regs[regs_str_64[j]]

\* C23 witness: six arguments, some of them calls, all spilled because the
\* three pool registers are busy, are in the argument registers at  call f
C23_Witness ==
    /\ phase = "running" /\ m.status = "running"
    /\ TheCall.held = 4 /\ Len(TheCall.call.args) = 6
    /\ TheCall.call.args[3] = FuncCall("g", <<Lit(7)>>)
    /\ m.pc = CallLine(cg.assembly_lines_)
    /\ m.regs["rdi"] = 6 /\ m.regs["rsi"] = 5 /\ m.regs["rdx"] = 8
    /\ m.regs["rcx"] = -5 /\ m.regs["r8"] = 2 /\ m.regs["r9"] = 15
    /\ m.regs["rbx"] = 100 /\ m.regs["r12"] = 90 /\ m.regs["r13"] = 80

(***************************************************************************)
(* The code of a BinaryOp whose operands are leaves, compiled with the     *)
(* three pool registers free: the left operand is in rbx, the right one in *)
(* r12 when both have been evaluated.                                      *)
(***************************************************************************)
\* the lines that load both operands into ecx / eax, apply the operator
\* there and place eax in the free pool register
ThroughEaxEcx(op) ==
    <<Ins("mov", "ecx", "r12d", 0), Ins("mov", "eax", "ebx", 0)>>
    \o BinOpLines(op, "eax", "ecx", "al", "cl")
    \o <<Ins("mov", "ebx", "eax", 0)>>

HasLines(lines, part) ==
    \E i \in 0..(Len(lines) - Len(part)) :
        SubSeq(lines, i + 1, i + Len(part)) = part

\* C24: after both operands of a BinaryOp have been evaluated, the right
\* operand is loaded into ecx and then the left one into eax (from their
\* pool registers, which are freed), the operator's instructions work on
\* eax / ecx, and only then eax is placed in a free pool register.
C24_OperandsThroughEaxEcx ==
    (/\ phase = "generated"
     /\ ReturnedExpr.kind = "BinaryOp"
     /\ ReturnedExpr.left \in Leaves /\ ReturnedExpr.right \in Leaves) =>
        HasLines(cg.assembly_lines_, ThroughEaxEcx(ReturnedExpr.op))

(***************************************************************************)
(* Frame programs:                                                         *)
(*   int g (int p1) { return p1 + 1; }                                     *)
(*   int main () { int a = c; S  int y = 2; return e; }                    *)
(* S is nothing, a declaration, or an if / while whose body declares x;    *)
(* e reads y under 0..MaxHeld pending left operands or after a call.       *)
(***************************************************************************)
FrameDecl == VarDecl("x", <<Lit(1)>>)

FrameMiddles ==
    {<<>>, <<FrameDecl>>,
     <<IfStmt(Id("a"), Block(<<FrameDecl>>))>>,
     <<IfStmt(Id("a"), Block(<<FrameDecl, Assignment("a", Id("x"))>>))>>,
     <<WhileStmt(Id("a"), Block(<<FrameDecl, Assignment("a", Sub(Id("a"), Id("x")))>>))>>,
     <<Block(<<FrameDecl>>)>>}

FrameReturns ==
    {Held(k, Id("y")) : k \in 0..MaxHeld}
    \cup {Add(FuncCall("g", <<Id("y")>>), Id("y")),
          Add(Id("y"), FuncCall("g", <<Id("a")>>))}

FramePrograms ==
    {Program(<<Function("g", <<Param("p1")>>,
                        Block(<<ReturnStmt(Add(Id("p1"), Lit(1)))>>)),
               MainOf(<<VarDecl("a", <<Lit(c)>>)>> \o mid
                      \o <<VarDecl("y", <<Lit(2)>>), ReturnStmt(e)>>)>>) :
        c \in {0, 1, 2}, mid \in FrameMiddles, e \in FrameReturns}

InitFrame == InitGen(FramePrograms)
SpecFrame == InitFrame /\ [][NextGen]_vars

\* the line the machine is about to execute
LineAtPc == cg.assembly_lines_[m.pc]

\* C25: whenever the running code reads or writes the home slot of a
\* variable, that slot lies at or above rsp, inside the frame the executed
\* sub rsp, 8  instructions have allocated (so that no push and no call can
\* overwrite it); also for the variable declared after an if statement
\* whose body holds a declaration and was skipped.
C25_SlotsInsideFrame ==
    (/\ phase = "running" /\ m.status = "running"
     /\ LineAtPc.op = "mov" /\ "mem" \in {LineAtPc.a, LineAtPc.b}) =>
        m.regs["rbp"] + LineAtPc.n >= m.regs["rsp"]

(***************************************************************************)
(* Programs with a declaration inside an if statement:                     *)
(*   int main () { int a = 0; [int x = 7;] if (C) { B } A }                *)
(* compiled after the optimizing pass (the driver's -O).                   *)
(***************************************************************************)
KeepFronts == {"int a = 0; ", "int a = 0; int x = 7; "}
KeepConds  == {"0", "1", "2 - 2", "a", "1 == 2", "!1"}
KeepBodies == {"int x = 1;", "int x;", "x = 4;", "int x = 1; x = 2;"}
KeepAfters == {"x = 2; return x;", "return x;", "return 3;"}

KeepSources ==
    {"int main () { " \o f \o "if (" \o c \o ") { " \o b \o " } " \o a \o " }" :
        f \in KeepFronts, c \in KeepConds, b \in KeepBodies, a \in KeepAfters}
    \cup {"int main () { while (0) { int x = 1; } return x; }",
          "int main () { if (0) { if (1) { int x = 1; } } x = 1; return x; }",
          "int main () { return 1 }"}

InitKeep == InitOpt(KeepSources, {})
SpecKeep == InitKeep /\ [][NextDriver]_vars

\* C26: the optimizer preserves compilability: if Codegen accepts the
\* parsed program it accepts the optimized one (removing a constant-false
\* if removes no declaration a surviving statement refers to).
C26_OptimizedStillCompiles ==
    [][(phase = "parsed" /\ phase' = "optimized") =>
            (Codegen(program).thrown = "" => Codegen(program').thrown = "")]_vars

(***************************************************************************)
(* gen_expr on its own: inside main, after  int a = 5;  with the busy      *)
(* flags of the pool in any of their eight settings (gen_stmt enters       *)
(* gen_expr with all of them free; the operands of a BinaryOp and the      *)
(* arguments of a call are entered with rbx, rbx r12, or all three busy).  *)
(***************************************************************************)
Pools == [1..3 -> BOOLEAN]

ExprEntry(pool) ==
    [gen_stmt(emit_all([NewCodegen EXCEPT !.next_var_offset_ = -24,
                                          !.epilogue_label_ = 2,
                                          !.label_counter_ = 3],
                       Prologue("main")),
              VarDecl("a", <<Lit(5)>>))
        EXCEPT !.reg_used_ = pool]

PoolExprs ==
    Exprs \cup {FuncCall("f", args) : args \in CallArgLists}
          \cup {Add(FuncCall("f", args), Id("a")) : args \in CallArgLists}

\* std::string reg = gen_expr (e);
GenExpr ==
    /\ phase = "expr"
    /\ cg' = gen_expr(cg, ReturnedExpr)
    /\ phase' = "expr done"
    /\ UNCHANGED <<source, tokens, parsed, program, m, proc>>

NextPool == GenExpr

InitPool ==
    /\ phase = "expr"
    /\ source = ""
    /\ tokens = NoTokens
    /\ parsed = NoParse
    /\ program \in {ExprProgram(e) : e \in PoolExprs}
    /\ cg \in {ExprEntry(pool) : pool \in Pools}
    /\ m = IdleMachine
    /\ proc = NoOutput

SpecPool == InitPool /\ [][NextPool]_vars

\* the registers the lines write to
Written(lines) ==
    {Reg64Of(lines[i].a) : i \in {j \in 1..Len(lines) :
        lines[j].op \notin {"push", "cmp", "test", "call", "idiv", "cdq"}}}

\* C27: gen_expr returns the spilled sentinel exactly when all three pool
\* registers were busy on entry; otherwise it returns a register that was
\* free on entry, and that register's busy flag is the only one that
\* differs on return: no register busy on entry is handed out, freed, or
\* written to by the emitted code.
C27_OneRegisterTaken ==
    [][(phase = "expr" /\ phase' = "expr done" /\ cg'.thrown = "") =>
        LET before == cg.reg_used_
            after == cg'.reg_used_
            emitted == SubSeq(cg'.assembly_lines_, Len(cg.assembly_lines_) + 1,
                              Len(cg'.assembly_lines_))
        IN  /\ (cg'.ret = "") <=> (\A i \in 1..3 : before[i])
            /\ cg'.ret = "" => after = before
            /\ cg'.ret # "" =>
                \E i \in 1..3 :
                    /\ cg'.ret = regs_str_64[i]
                    /\ ~before[i] /\ after[i]
                    /\ \A j \in 1..3 \ {i} : after[j] = before[j]
            /\ \A i \in 1..3 : before[i] => regs_str_64[i] \notin Written(emitted)]_vars

\* C27 witness: with rbx busy, (40 - a) * (9 / 2) has been evaluated into
\* r12, its right operand having used and given back r13
C27_Witness ==
    /\ phase = "expr done"
    /\ ReturnedExpr = BinaryOp("MUL", BinaryOp("SUB", Lit(40), Id("a")),
                                      BinaryOp("DIV", Lit(9), Lit(2)))
    /\ cg.ret = "r12"
    /\ cg.reg_used_ = <<TRUE, TRUE, FALSE>>
    /\ "r13" \in Written(cg.assembly_lines_)

(***************************************************************************)
(* gen_stmt on its own: the statement after  int a = 5;  of main, over     *)
(* every kind of statement, with expressions that stay in the pool, that   *)
(* fill it and that spill, and with calls.                                 *)
(***************************************************************************)
StmtExprs ==
    {Held(k, x) :
        k \in {0, 3, MaxHeld},
        x \in {Lit(2), Id("a"), UnaryOp("NOT", Id("a")),
               FuncCall("f", <<Id("a"), Lit(3)>>),
               Add(Id("a"), FuncCall("f", <<>>))}}

SimpleStmts ==
    {VarDecl("x", <<>>)}
    \cup {ReturnStmt(e) : e \in StmtExprs}
    \cup {VarDecl("x", <<e>>) : e \in StmtExprs}
    \cup {Assignment("a", e) : e \in StmtExprs}
    \cup {ExprStmt(e) : e \in StmtExprs}

InnerStmts ==
    {<<>>,
     <<Assignment("a", Held(MaxHeld, Lit(2)))>>,
     <<ReturnStmt(Id("a"))>>,
     <<VarDecl("x", <<Lit(1)>>), ExprStmt(Held(3, FuncCall("f", <<Id("x")>>)))>>,
     <<IfStmt(Held(MaxHeld, Id("a")), Block(<<ReturnStmt(Held(MaxHeld, Lit(2)))>>)),
       Assignment("a", Lit(0))>>}

AllStmts ==
    SimpleStmts
    \cup {IfStmt(e, Block(ss)) : e \in StmtExprs, ss \in InnerStmts}
    \cup {WhileStmt(e, Block(ss)) : e \in StmtExprs, ss \in InnerStmts}
    \cup {Block(ss) : ss \in InnerStmts}

GeneratedStmt == program.functions[1].body.statements[2]

\* gen_stmt (stmt);
GenStmt ==
    /\ phase = "stmt"
    /\ cg' = gen_stmt(cg, GeneratedStmt)
    /\ phase' = "stmt done"
    /\ UNCHANGED <<source, tokens, parsed, program, m, proc>>

NextGenStmt == GenStmt

InitGenStmt ==
    /\ phase = "stmt"
    /\ source = ""
    /\ tokens = NoTokens
    /\ parsed = NoParse
    /\ program \in {Main(<<VarDecl("a", <<Lit(5)>>), s>>) : s \in AllStmts}
    /\ cg = ExprEntry(<<FALSE, FALSE, FALSE>>)
    /\ m = IdleMachine
    /\ proc = NoOutput

SpecGenStmt == InitGenStmt /\ [][NextGenStmt]_vars

RECURSIVE Balanced(_, _, _)
\* from line i on, with d values pushed and not yet popped: no pop finds
\* the count at 0, and the count is 0 at every label and jump and at the end
Balanced(lines, i, d) ==
    IF i > Len(lines) THEN d = 0
    ELSE IF lines[i].op = "push" THEN Balanced(lines, i + 1, d + 1)
    ELSE IF lines[i].op = "pop" THEN d > 0 /\ Balanced(lines, i + 1, d - 1)
    ELSE IF lines[i].op \in {"label", "jmp", "je"}
        THEN d = 0 /\ Balanced(lines, i + 1, 0)
    ELSE Balanced(lines, i + 1, d)

EmittedBy(before, after) ==
    SubSeq(after.assembly_lines_, Len(before.assembly_lines_) + 1,
           Len(after.assembly_lines_))

\* C28: when the code of a statement has been generated all three pool
\* registers are marked free, and in the emitted lines the pushes and pops
\* balance on every path: between two jumps or labels, and at the end of
\* the statement, every pushed value has been popped.
C28_StatementLeavesNothing ==
    [][(phase = "stmt" /\ phase' = "stmt done" /\ cg'.thrown = "") =>
        /\ cg'.reg_used_ = <<FALSE, FALSE, FALSE>>
        /\ Balanced(EmittedBy(cg, cg'), 1, 0)]_vars

\* C28 witness: an if statement whose condition and whose body spill
C28_Witness ==
    /\ phase = "stmt done"
    /\ GeneratedStmt = IfStmt(Held(MaxHeld, Id("a")),
                              Block(<<Assignment("a", Held(MaxHeld, Lit(2)))>>))
    /\ cg.reg_used_ = <<FALSE, FALSE, FALSE>>
    /\ Cardinality({i \in 1..Len(cg.assembly_lines_) :
                        cg.assembly_lines_[i].op = "pop"}) >= 4

\* C29: Optimizer::optimize completes normally, without trapping, on every
\* program the parser produces, also on constant expressions whose folded
\* intermediate value is INT_MIN and is then negated or divided by -1.
C29_OptimizerCompletes ==
    [][phase = "parsed" => phase' = "optimized"]_vars

(***************************************************************************)
(* The parser on arbitrary token vectors that end with END_OF_FILE: up to  *)
(* MaxTokens tokens of any kind (END_OF_FILE among them), alone, as the    *)
(* body of a function, as an unclosed body, and after the beginning of a   *)
(* return statement.                                                       *)
(***************************************************************************)
MaxTokens == 2

TokenKinds ==
    {tok("INT_TYPE", "int"), tok("IDENTIFIER", "x"), tok("INT_LITERAL", "7"),
     tok("INT_LITERAL", "2147483648"), tok("L_PAREN", ""), tok("R_PAREN", ""),
     tok("L_BRACE", ""), tok("R_BRACE", ""), tok("SEMICOLON", ""),
     tok("EQ_OP", ""), tok("ADD_OP", ""), tok("OR_CMP", ""),
     tok("RETURN", "return"), tok("WHILE", "while"), tok("END_OF_FILE", "")}

TokenRuns == UNION {[1..n -> TokenKinds] : n \in 0..MaxTokens}

FunctionHead ==
    <<tok("INT_TYPE", "int"), tok("IDENTIFIER", "f"), tok("L_PAREN", ""),
      tok("R_PAREN", ""), tok("L_BRACE", "")>>

TokenVectors ==
    {run \o <<tok("END_OF_FILE", "")>> : run \in TokenRuns}
    \cup {FunctionHead \o run \o <<tok("R_BRACE", ""), tok("END_OF_FILE", "")>> :
            run \in TokenRuns}
    \cup {FunctionHead \o run \o <<tok("END_OF_FILE", "")>> : run \in TokenRuns}
    \cup {FunctionHead \o <<tok("RETURN", "return"), tok("IDENTIFIER", "x")>> \o run
          \o <<tok("SEMICOLON", ""), tok("R_BRACE", ""), tok("END_OF_FILE", "")>> :
            run \in TokenRuns}

InitTokens == InitParse(DriverSources, TokenVectors)
SpecTokens == InitTokens /\ [][NextParse]_vars

\* the operand parser of the binary-operator loop that takes the token type
OperandOf(type, toks, cur) ==
    CASE type = "OR_CMP" -> logic_and(toks, cur)
      [] type = "AND_CMP" -> comparison(toks, cur)
      [] type \in {"EQ_CMP", "NE_CMP", "LT_CMP", "GT_CMP"} -> addition(toks, cur)
      [] type \in {"ADD_OP", "SUB_OP"} -> multiplication(toks, cur)
      [] type \in {"MULT_OP", "DIV_OP"} -> unary(toks, cur)

\* the cursor position of the first END_OF_FILE
EndOf(toks) ==
    CHOOSE c \in 0..(Len(toks) - 1) :
        /\ is_at_end(toks, c)
        /\ \A b \in 0..(c - 1) : ~is_at_end(toks, b)

\* r is what one iteration that began at the cursor c left: the cursor has
\* not moved back and not past END_OF_FILE, and it has advanced unless a
\* ParseError was raised
Consumed(toks, c, r) ==
    /\ r.cur >= c
    /\ r.cur <= EndOf(toks)
    /\ r.thrown = "ParseError" \/ r.cur > c

\* C30: on a token vector that ends with END_OF_FILE, Parser::parse
\* returns or raises with the cursor at or before END_OF_FILE; next never
\* moves the cursor back or past END_OF_FILE; and from every cursor position
\* at which the function loop, the statement loop of a block or a
\* binary-operator loop begins an iteration, the iteration consumes at
\* least one token or raises ParseError.
C30_ParseTerminates ==
    [][phase = "lexed" =>
        /\ parsed'.done
        /\ parsed'.cur \in 0..EndOf(tokens)
        /\ \A c \in 0..EndOf(tokens) :
            /\ next(tokens, c) \in {c, c + 1}
            /\ next(tokens, c) <= EndOf(tokens)
            /\ ~is_at_end(tokens, c) =>
                    Consumed(tokens, c, function(tokens, c))
            /\ (~check(tokens, c, "R_BRACE") /\ ~is_at_end(tokens, c)) =>
                    Consumed(tokens, c, statement(tokens, c))
            /\ (\E t \in {"OR_CMP", "AND_CMP", "EQ_CMP", "NE_CMP", "LT_CMP",
                          "GT_CMP", "ADD_OP", "SUB_OP", "MULT_OP", "DIV_OP"} :
                        check(tokens, c, t)) =>
                    LET r == OperandOf(peek(tokens, c).type, tokens, c + 1)
                    IN  r.cur >= c + 1 /\ r.cur <= EndOf(tokens)]_vars

\* C30 witness: parse has returned with the cursor on END_OF_FILE after the
\* function loop, the statement loop and a binary-operator loop have run
C30_Witness ==
    /\ phase = "parsed"
    /\ tokens = FunctionHead
                \o <<tok("RETURN", "return"), tok("IDENTIFIER", "x"),
                     tok("ADD_OP", ""), tok("INT_LITERAL", "7"),
                     tok("SEMICOLON", ""), tok("R_BRACE", ""), tok("END_OF_FILE", "")>>
    /\ parsed.cur = Len(tokens) - 1
    /\ program.functions[1].body.statements
            = <<ReturnStmt(BinaryOp("ADD", Identifier("x"), IntLiteral(7)))>>

====
